---- MODULE Spec2Model ----
(***************************************************************************)
(* The build pipeline of the Open Filament Database: DataCrawler walks the *)
(* stores/ and data/ trees of JSON documents and fills the seven entity    *)
(* collections of a Database plus a diagnostics log (BuildResult).         *)
(*                                                                         *)
(* The recursion of the crawler (a handler per directory level, each       *)
(* looping over its sorted children) is modelled by an explicit call       *)
(* stack: a handler's step does the handler's own work and pushes one      *)
(* frame per child it would call, in the order of the calls.               *)
(***************************************************************************)
EXTENDS Integers, Sequences, FiniteSets, TLC

(***************************************************************************)
(* JSON values as Python sees them after json.load: tagged records.        *)
(* A float is held in hundredths (1.75 is JFloat(175)).                    *)
(***************************************************************************)
JNull == [t |-> "null", v |-> 0]
JBool(b) == [t |-> "bool", v |-> b]
JNum(n) == [t |-> "num", v |-> n]
JFloat(h) == [t |-> "float", v |-> h]
JStr(s) == [t |-> "str", v |-> s]
JList(s) == [t |-> "list", v |-> s]
JObj(f) == [t |-> "obj", v |-> f]

\* A file on disk: absent, unparsable, or a parsed JSON value.
FMissing == [t |-> "missing", v |-> 0]
FMalformed == [t |-> "malformed", v |-> 0]

\* Python truthiness (`if not x`).
Truthy(x) ==
    CASE x.t = "null" -> FALSE
      [] x.t = "bool" -> x.v
      [] x.t = "num" -> x.v # 0
      [] x.t = "float" -> x.v # 0
      [] x.t = "str" -> x.v # ""
      [] x.t = "list" -> Len(x.v) > 0
      [] x.t = "obj" -> DOMAIN x.v # {}
      [] OTHER -> TRUE

\* dict.get(key, default) on a parsed object.
PyGet(d, k, default) == IF k \in DOMAIN d.v THEN d.v[k] ELSE default

\* {**base, **over}: the keys of over win.
\* variant of the operator below: the keys of the source win
OverlaySourceWins(base, over) ==
    [k \in DOMAIN base \cup DOMAIN over |->
        IF k \in DOMAIN base THEN base[k] ELSE over[k]]

Overlay(base, over) ==
    [k \in DOMAIN base \cup DOMAIN over |->
        IF k \in DOMAIN over THEN over[k] ELSE base[k]]

\* dict.pop(key, None) on an entity.
Pop(e, k) == [x \in DOMAIN e \ {k} |-> e[x]]

\* int(x) and float(x): whether Python raises, and the value otherwise.
\* Numeric strings of the inputs are listed in NumericStrings.
NumericStrings == ("1000" :> 1000) @@ ("250" :> 250) @@ ("0" :> 0)
IntRaises(x) ==
    CASE x.t \in {"num", "float", "bool"} -> FALSE
      [] x.t = "str" -> x.v \notin DOMAIN NumericStrings
      [] OTHER -> TRUE
PyInt(x) ==
    CASE x.t = "num" -> JNum(x.v)
      [] x.t = "float" -> JNum(x.v \div 100)
      [] x.t = "bool" -> JNum(IF x.v THEN 1 ELSE 0)
      [] OTHER -> JNum(NumericStrings[x.v])
FloatRaises(x) == IntRaises(x)
PyFloat(x) ==
    CASE x.t = "num" -> JFloat(x.v * 100)
      [] x.t = "float" -> x
      [] x.t = "bool" -> JFloat(IF x.v THEN 100 ELSE 0)
      [] OTHER -> JFloat(NumericStrings[x.v] * 100)

\* `for i, x in enumerate(v)`: raises TypeError on a value that is not iterable.
IterRaises(x) == x.t \in {"null", "num", "float", "bool"}
IterItems(x) == IF x.t = "list" THEN x.v ELSE <<>>

(***************************************************************************)
(* ofd/builder/utils.py and ofd/builder/errors.py are imported by the      *)
(* crawler but are not part of the sources at hand; they are modelled from *)
(* the design document (sections 4.1, 4.2 and 7).                          *)
(***************************************************************************)
\* An identifier is a reproducible derivation of (entity-type tag, natural-key
\* tuple): modelled as the tagged tuple itself (an injective derivation).
MakeId(tag, key) == [t |-> "id", v |-> <<tag>> \o key]
generate_brand_id(name) == MakeId("brand", <<name>>)
\* variant of the operator below: the material name is left out of the key
generate_material_id_of_brand(brand_id, material) == MakeId("material", <<brand_id>>)
generate_material_id(brand_id, material) == MakeId("material", <<brand_id, material>>)
generate_filament_id(brand_id, material_id, name) ==
    MakeId("filament", <<brand_id, material_id, name>>)
generate_variant_id(filament_id, source_id) == MakeId("variant", <<filament_id, source_id>>)
\* Size <- (variant id, the size record's own content, positional index).
generate_size_id(variant_id, size_entry, index) ==
    MakeId("size", <<variant_id, size_entry, index>>)
generate_store_id(original_id) == MakeId("store", <<original_id>>)
generate_purchase_link_id(size_id, store_id, url) ==
    MakeId("purchase_link", <<size_id, store_id, url>>)

\* slugify: an opaque function of its argument.
slugify(x) == [t |-> "slug", v |-> x]

\* ensure_list: a list stays, a single scalar becomes a one-element list.
ensure_list(x) == IF x.t = "list" THEN x ELSE JList(<<x>>)

\* normalize_color_hex: "#"-prefixed, 6 hex digits, uppercase; None when the
\* input is malformed.  The colour strings of the inputs are listed here.
HexTable == ("#000000" :> "#000000") @@ ("#AbC123" :> "#ABC123") @@ ("abc123" :> "#ABC123")
normalize_color_hex(x) ==
    IF x.t = "str" /\ x.v \in DOMAIN HexTable THEN JStr(HexTable[x.v]) ELSE JNull

\* The build fails on a "Directory" diagnostic (root path missing: fatal to the
\* whole operation) and succeeds otherwise, whatever warnings it holds.
IsFailure(log) == \E i \in 1..Len(log) : log[i].category = "Directory"

\* BuildResult.add_warning(category, message, path): appends one record.
add_warning(result, category, message, path) ==
    Append(result, [level |-> "WARNING", category |-> category,
                    message |-> message, path |-> path])

(***************************************************************************)
(* serialization.py: the projection of an entity for export and the        *)
(* serialisation of a value for a CSV cell and for a SQLite parameter.     *)
(* Text is a JSON string value; an identifier or a slug is a string and    *)
(* serialises to itself.                                                    *)
(***************************************************************************)
\* The keys of the entities, in the order sorted() gives them.
KeyOrder == <<"brand_id", "color_hex", "density", "diameter", "diameter_tolerance",
              "directory_name", "discontinued", "ean", "filament_id", "filament_weight",
              "gtin", "hex_variants", "id", "logo", "logo_name", "material",
              "material_class", "material_id", "name", "origin", "purchase_links",
              "ships_from", "ships_to", "size_id", "slug", "spool_refill", "store_id",
              "storefront_url", "url", "variant_id", "website", "x_note">>
SortedKeys(keys) == SelectSeq(KeyOrder, LAMBDA k : k \in keys)

\* variant of the test below: no key is internal
SkipKeyNever(key) == FALSE

\* `if key == "directory_name": continue`
SkipKey(key) == key = "directory_name"

\* entity_to_dict(entity), exclude_none = True.  Where 'logo' and 'logo_name'
\* meet in a brand or a store, the later key of the dict wins: that is 'logo',
\* which the crawler's overlay adds after the keys of the source document.
entity_to_dict(entity) ==
    LET is_brand_or_store == "directory_name" \in DOMAIN entity
        kept == {k \in DOMAIN entity : ~SkipKey(k) /\ entity[k] # JNull}
        output_key(k) == IF k = "logo" /\ is_brand_or_store THEN "logo_name" ELSE k
    IN  [o \in {output_key(k) : k \in kept} |->
            IF o = "logo_name" /\ is_brand_or_store /\ "logo" \in kept
            THEN entity["logo"] ELSE entity[o]]

\* str(float): hundredths, as Python prints them ("1.75", "1.0", "0.02")
FloatText(v) ==
    ToString(v \div 100) \o "." \o
        (IF v % 10 = 0 THEN ToString((v % 100) \div 10)
         ELSE IF v % 100 < 10 THEN "0" \o ToString(v % 100)
         ELSE ToString(v % 100))

\* json.dumps(value, ensure_ascii=False); the keys of an object in KeyOrder
RECURSIVE Dumps(_)
RECURSIVE DumpsItems(_)
RECURSIVE DumpsPairs(_, _)
DumpsItems(items) ==
    IF items = <<>> THEN ""
    ELSE IF Len(items) = 1 THEN Dumps(items[1])
    ELSE Dumps(items[1]) \o ", " \o DumpsItems(Tail(items))
DumpsPairs(obj, keys) ==
    IF keys = <<>> THEN ""
    ELSE "\"" \o keys[1] \o "\": " \o Dumps(obj[keys[1]])
         \o (IF Len(keys) = 1 THEN "" ELSE ", " \o DumpsPairs(obj, Tail(keys)))
Dumps(x) ==
    CASE x.t = "null" -> "null"
      [] x.t = "bool" -> IF x.v THEN "true" ELSE "false"
      [] x.t = "num" -> ToString(x.v)
      [] x.t = "float" -> FloatText(x.v)
      [] x.t = "str" -> "\"" \o x.v \o "\""
      [] x.t = "list" -> "[" \o DumpsItems(x.v) \o "]"
      [] x.t = "obj" -> "{" \o DumpsPairs(x.v, SortedKeys(DOMAIN x.v)) \o "}"

serialize_for_csv(value) ==
    CASE value.t = "null" -> JStr("")
      [] value.t = "bool" -> JStr(IF value.v THEN "1" ELSE "0")
      [] value.t \in {"obj", "list"} -> JStr(Dumps(value))
      [] value.t = "num" -> JStr(ToString(value.v))
      [] value.t = "float" -> JStr(FloatText(value.v))
      [] OTHER -> value

serialize_for_sqlite(value) ==
    CASE value.t = "null" -> JNull
      [] value.t = "bool" -> JNum(IF value.v THEN 1 ELSE 0)
      [] value.t \in {"obj", "list"} -> JStr(Dumps(value))
      [] OTHER -> value

\* dict.get(key) on a projected entity
Field(exported, key) == IF key \in DOMAIN exported THEN exported[key] ELSE JNull

(***************************************************************************)
(* The source tree.  A directory is [files, dirs]: files maps a file name  *)
(* to its content, dirs a child directory's name to the child.  Names come *)
(* from NameOrder, which lists them in the order Python's sorted() gives   *)
(* them ('.' sorts before digits and letters); hidden names start with '.'.*)
(***************************************************************************)
NoEntries == [x \in {} |-> x]
Dir(files, dirs) == [files |-> files, dirs |-> dirs]
EmptyDir == Dir(NoEntries, NoEntries)

NameOrder == <<".hidden", "README.md", "a", "b", "brand.json", "c", "d", "data",
               "filament.json", "material.json", "sizes.json", "store.json",
               "stores", "variant.json">>
Rank(n) == CHOOSE i \in 1..Len(NameOrder) : NameOrder[i] = n
StartsWithDot(n) == n \in {".hidden"}

\* Path.exists() / is_dir() / iterdir() below a directory node.
Exists(d, n) == n \in DOMAIN d.files \/ n \in DOMAIN d.dirs
IsDir(d, n) == n \in DOMAIN d.dirs
ReadFile(d, n) == IF n \in DOMAIN d.files THEN d.files[n] ELSE FMissing

\* Every order in which iterdir() may yield the entries of a directory.
IterDirOrders(d) ==
    LET names == DOMAIN d.files \cup DOMAIN d.dirs
        n == Cardinality(names)
    IN  {s \in [1..n -> names] : \A i, j \in 1..n : i # j => s[i] # s[j]}

\* sorted(paths): insertion sort on the name order.
RECURSIVE InsertSorted(_, _)
InsertSorted(s, x) ==
    IF s = <<>> THEN <<x>>
    ELSE IF Rank(x) < Rank(Head(s)) THEN <<x>> \o s
    ELSE <<Head(s)>> \o InsertSorted(Tail(s), x)
RECURSIVE SortedNames(_)
SortedNames(s) ==
    IF s = <<>> THEN <<>> ELSE InsertSorted(SortedNames(Tail(s)), Head(s))

\* variant of the loop header below: `for child in dir.iterdir():`
ChildDirsUnsorted(d, listing) ==
    SelectSeq(listing, LAMBDA n : IsDir(d, n) /\ ~StartsWithDot(n))

\* The loop header shared by every level:
\*   for child in sorted(dir.iterdir()):
\*       if not child.is_dir(): continue
\*       if child.name.startswith('.'): continue
ChildDirs(d, listing) ==
    SelectSeq(SortedNames(listing), LAMBDA n : IsDir(d, n) /\ ~StartsWithDot(n))

RECURSIVE NodeAt(_, _)
NodeAt(d, path) == IF path = <<>> THEN d ELSE NodeAt(d.dirs[Head(path)], Tail(path))

(***************************************************************************)
(* State.  tree is the source tree; db, result and the three caches are    *)
(* the fields of one DataCrawler; pc and stack are the position of crawl() *)
(* (stack holds the pending handler calls, innermost loop first).  prev    *)
(* holds what the previous build returned (and the tree it read); other is *)
(* the source tree as it will be when the build is run again.              *)
(***************************************************************************)
VARIABLES tree, pc, stack, db, result, store_cache, material_cache, brand_cache,
          prev, other, artifacts

vars == <<tree, pc, stack, db, result, store_cache, material_cache, brand_cache,
          prev, other, artifacts>>

\* Database(): seven empty lists.
Database == [brands |-> <<>>, materials |-> <<>>, filaments |-> <<>>, variants |-> <<>>,
             sizes |-> <<>>, stores |-> <<>>, purchase_links |-> <<>>]
\* BuildResult(): an empty log.
BuildResult == <<>>
Collections == {"brands", "materials", "filaments", "variants", "sizes", "stores",
                "purchase_links"}

\* The fields of the crawler a handler reads and writes.
Self == [db |-> db, result |-> result, store_cache |-> store_cache,
         material_cache |-> material_cache, brand_cache |-> brand_cache]

\* What a handler leaves behind: the crawler's fields, the calls it makes on
\* its children (in order), and whether it raised.
Returned(self, calls) == [self |-> self, calls |-> calls, raised |-> FALSE]
Raised(self) == [self |-> self, calls |-> <<>>, raised |-> TRUE]
Warned(self, category, message, path) ==
    Returned([self EXCEPT !.result = add_warning(@, category, message, path)], <<>>)

(***************************************************************************)
(* DataCrawler._process_store_directory                                    *)
(***************************************************************************)
\* variant of the operator below: the cache is keyed by the directory name
StoreCacheKeyDirName(original_id, name) == JStr(name)

\* `self._store_cache[original_id] = store_id`: the key of the store cache
StoreCacheKey(original_id, name) == original_id

process_store_directory(self, store_dir) ==
    LET d == NodeAt(tree, store_dir)
        name == store_dir[Len(store_dir)]
        store_json == store_dir \o <<"store.json">>
        data == ReadFile(d, "store.json")
        original_id == PyGet(data, "id", JNull)
        store_id == generate_store_id(original_id)
        store == Overlay(data.v,
            [id |-> store_id,
             name |-> PyGet(data, "name", JStr(name)),
             slug |-> slugify(PyGet(data, "name", JStr(name))),
             directory_name |-> JStr(name),
             storefront_url |-> PyGet(data, "storefront_url", JStr("")),
             logo |-> PyGet(data, "logo", JStr("")),
             ships_from |-> ensure_list(PyGet(data, "ships_from", JList(<<>>))),
             ships_to |-> ensure_list(PyGet(data, "ships_to", JList(<<>>)))])
    IN  IF ~Exists(d, "store.json") THEN Returned(self, <<>>)
        ELSE IF data = FMalformed
            THEN Warned(self, "JSON Parse", <<"Failed to parse">>, store_json)
        ELSE IF data.t # "obj" THEN Raised(self)   \* list.get: AttributeError
        ELSE IF ~Truthy(original_id)
            THEN Warned(self, "Missing Field", <<"Store missing 'id' field">>, store_json)
        ELSE Returned([self EXCEPT
                 !.db.stores = Append(@, store),
                 !.store_cache = (StoreCacheKey(original_id, name) :> store_id) @@ @], <<>>)

\* The calls `for child in sorted(...): self._process_X(child, ...)` makes.
ChildCalls(kind, dir, listing, ctx) ==
    LET names == ChildDirs(NodeAt(tree, dir), listing)
    IN  [i \in 1..Len(names) |-> [k |-> kind, path |-> dir \o <<names[i]>>, ctx |-> ctx]]

(***************************************************************************)
(* DataCrawler._process_brand_directory                                    *)
(***************************************************************************)
process_brand_directory(self, brand_dir, listing) ==
    LET d == NodeAt(tree, brand_dir)
        brand_name == brand_dir[Len(brand_dir)]
        brand_json == brand_dir \o <<"brand.json">>
        brand_data == ReadFile(d, "brand.json")
        brand_id == generate_brand_id(JStr(brand_name))
        brand == Overlay(brand_data.v,
            [id |-> brand_id,
             name |-> PyGet(brand_data, "name", JStr(brand_name)),
             slug |-> slugify(JStr(brand_name)),
             directory_name |-> JStr(brand_name),
             website |-> PyGet(brand_data, "website", JStr("")),
             logo |-> PyGet(brand_data, "logo", JStr("")),
             origin |-> PyGet(brand_data, "origin", JStr("Unknown"))])
    IN  IF ~Exists(d, "brand.json")
            THEN Warned(self, "Missing File", <<"Missing brand.json">>, brand_dir)
        ELSE IF brand_data = FMalformed
            THEN Warned(self, "JSON Parse", <<"Failed to parse">>, brand_json)
        ELSE IF brand_data.t # "obj" THEN Raised(self)
        ELSE Returned([self EXCEPT
                 !.db.brands = Append(@, brand),
                 !.brand_cache = (brand_name :> brand_id) @@ @],
                 ChildCalls("material", brand_dir, listing, [brand_id |-> brand_id]))

(***************************************************************************)
(* DataCrawler._process_material_directory                                 *)
(***************************************************************************)
process_material_directory(self, material_dir, brand_id, listing) ==
    LET d == NodeAt(tree, material_dir)
        material_name == material_dir[Len(material_dir)]
        material_json == material_dir \o <<"material.json">>
        loaded == ReadFile(d, "material.json")
        failed == Exists(d, "material.json") /\ loaded = FMalformed
        \* material_data stays {} when the file is absent or fails to parse
        material_data == IF Exists(d, "material.json") /\ ~failed
                         THEN loaded ELSE JObj(NoEntries)
        self1 == IF failed
                 THEN [self EXCEPT !.result =
                          add_warning(@, "JSON Parse", <<"Failed to parse">>, material_json)]
                 ELSE self
        material_id == generate_material_id(brand_id, JStr(material_name))
        cache_key == <<brand_id, material_name>>
        material == Overlay(material_data.v,
            [id |-> material_id,
             brand_id |-> brand_id,
             material |-> PyGet(material_data, "material", JStr(material_name)),
             slug |-> slugify(JStr(material_name)),
             material_class |-> PyGet(material_data, "material_class", JStr("FFF"))])
        calls == ChildCalls("filament", material_dir, listing,
                     [brand_id |-> brand_id, material_id |-> material_id,
                      material_name |-> material_name])
    IN  IF cache_key \notin DOMAIN self1.material_cache
        THEN IF material_data.t # "obj" THEN Raised(self1)
             ELSE Returned([self1 EXCEPT
                      !.db.materials = Append(@, material),
                      !.material_cache = (cache_key :> material_id) @@ @], calls)
        ELSE Returned(self1, calls)

(***************************************************************************)
(* DataCrawler._process_filament_directory                                 *)
(***************************************************************************)
process_filament_directory(self, filament_dir, ctx, listing) ==
    LET d == NodeAt(tree, filament_dir)
        dir_name == filament_dir[Len(filament_dir)]
        filament_json == filament_dir \o <<"filament.json">>
        filament_data == ReadFile(d, "filament.json")
        filament_name == PyGet(filament_data, "name", JStr(dir_name))
        filament_id == generate_filament_id(ctx.brand_id, ctx.material_id, filament_name)
        filament == Overlay(filament_data.v,
            [id |-> filament_id,
             brand_id |-> ctx.brand_id,
             material_id |-> ctx.material_id,
             name |-> filament_name,
             slug |-> slugify(filament_name),
             material |-> JStr(ctx.material_name),
             density |-> PyGet(filament_data, "density", JFloat(124)),
             diameter_tolerance |-> PyGet(filament_data, "diameter_tolerance", JFloat(2)),
             discontinued |-> PyGet(filament_data, "discontinued", JBool(FALSE))])
    IN  IF ~Exists(d, "filament.json")
            THEN Warned(self, "Missing File", <<"Missing filament.json">>, filament_dir)
        ELSE IF filament_data = FMalformed
            THEN Warned(self, "JSON Parse", <<"Failed to parse">>, filament_json)
        ELSE IF filament_data.t # "obj" THEN Raised(self)
        ELSE Returned([self EXCEPT !.db.filaments = Append(@, filament)],
                 ChildCalls("variant", filament_dir, listing, [filament_id |-> filament_id]))

(***************************************************************************)
(* DataCrawler._process_variant_directory                                  *)
(***************************************************************************)
\* [normalize_color_hex(h) for h in hex_variants if h]
NormalizeEach(items) ==
    LET kept == SelectSeq(items, Truthy)
    IN  [i \in 1..Len(kept) |-> normalize_color_hex(kept[i])]

\* color_hex: a string or an array (first element wins)
ColorHexOf(color_hex_raw) ==
    IF color_hex_raw.t = "list"
    THEN IF Truthy(color_hex_raw) THEN normalize_color_hex(color_hex_raw.v[1])
         ELSE JStr("#000000")
    ELSE IF Truthy(normalize_color_hex(color_hex_raw))
         THEN normalize_color_hex(color_hex_raw) ELSE JStr("#000000")

\* variant of the lookup below: the directory name, whatever variant.json holds
VariantSourceIdDirName(variant_data, dir_name) == JStr(dir_name)

\* variant_data.get("id", variant_dir.name)
VariantSourceId(variant_data, dir_name) == PyGet(variant_data, "id", JStr(dir_name))

process_variant_directory(self, variant_dir, filament_id) ==
    LET d == NodeAt(tree, variant_dir)
        dir_name == variant_dir[Len(variant_dir)]
        variant_json == variant_dir \o <<"variant.json">>
        variant_data == ReadFile(d, "variant.json")
        variant_source_id == VariantSourceId(variant_data, dir_name)
        color_name == PyGet(variant_data, "name", JStr(dir_name))
        variant_id == generate_variant_id(filament_id, variant_source_id)
        color_hex == ColorHexOf(PyGet(variant_data, "color_hex", JStr("#000000")))
        raw_variants == PyGet(variant_data, "hex_variants", JNull)
        hex_variants == IF Truthy(raw_variants)
                        THEN JList(NormalizeEach(IterItems(raw_variants)))
                        ELSE raw_variants
        base == Overlay(variant_data.v,
            [id |-> variant_id,
             filament_id |-> filament_id,
             slug |-> slugify(variant_source_id),
             name |-> color_name,
             color_hex |-> color_hex,
             discontinued |-> PyGet(variant_data, "discontinued", JBool(FALSE))])
        variant == IF Truthy(hex_variants)
                   THEN Overlay(base, [hex_variants |-> hex_variants]) ELSE base
        sizes_json == variant_dir \o <<"sizes.json">>
    IN  IF ~Exists(d, "variant.json")
            THEN Warned(self, "Missing File", <<"Missing variant.json">>, variant_dir)
        ELSE IF variant_data = FMalformed
            THEN Warned(self, "JSON Parse", <<"Failed to parse">>, variant_json)
        ELSE IF variant_data.t # "obj" THEN Raised(self)
        ELSE IF Truthy(raw_variants) /\ IterRaises(raw_variants) THEN Raised(self)
        ELSE Returned([self EXCEPT !.db.variants = Append(@, variant)],
                 IF Exists(d, "sizes.json")
                 THEN <<[k |-> "sizes_file", path |-> sizes_json,
                         ctx |-> [variant_id |-> variant_id]]>>
                 ELSE <<>>)

(***************************************************************************)
(* DataCrawler._process_sizes_file                                         *)
(***************************************************************************)
process_sizes_file(self, sizes_json, variant_id) ==
    LET d == NodeAt(tree, SubSeq(sizes_json, 1, Len(sizes_json) - 1))
        loaded == ReadFile(d, "sizes.json")
        sizes_data == IF loaded.t # "list" THEN <<loaded>> ELSE loaded.v
    IN  IF loaded = FMalformed
            THEN Warned(self, "JSON Parse", <<"Failed to parse">>, sizes_json)
        ELSE Returned(self,
                 [i \in 1..Len(sizes_data) |->
                     [k |-> "size", path |-> sizes_json,
                      ctx |-> [size_entry |-> sizes_data[i], variant_id |-> variant_id,
                               index |-> i - 1]]])

(***************************************************************************)
(* DataCrawler._create_size                                                *)
(***************************************************************************)
\* a or b
\* variant of the operator below: the right operand, whatever the left one is
PyOrRight(a, b) == b

\* `a or b`
PyOr(a, b) == IF Truthy(a) THEN a ELSE b

\* variant of the check below: left out
WeightNeverNone(weight) == FALSE

\* `if weight is None:`
WeightIsNone(weight) == weight = JNull

create_size(self, size_entry, variant_id, index, sizes_json) ==
    LET weight == PyGet(size_entry, "filament_weight", JNull)
        diameter0 == PyGet(size_entry, "diameter", JFloat(175))
        diameter == IF ~Truthy(diameter0) THEN JFloat(175) ELSE diameter0
        size_id == generate_size_id(variant_id, size_entry, index)
        gtin == PyOr(PyGet(size_entry, "gtin", JNull), PyGet(size_entry, "ean", JNull))
        purchase_links_data == PyGet(size_entry, "purchase_links", JList(<<>>))
        size0 == Overlay(size_entry.v,
            [id |-> size_id,
             variant_id |-> variant_id,
             filament_weight |-> PyInt(weight),
             diameter |-> PyFloat(diameter),
             discontinued |-> PyGet(size_entry, "discontinued", JBool(FALSE))])
        size1 == IF Truthy(gtin) THEN Overlay(size0, [gtin |-> gtin]) ELSE size0
        size == Pop(Pop(size1, "ean"), "purchase_links")
        appended == [self EXCEPT !.db.sizes = Append(@, size)]
        links == IterItems(purchase_links_data)
    IN  IF size_entry.t # "obj" THEN Raised(self)          \* str.get: AttributeError
        ELSE IF WeightIsNone(weight)
            THEN Warned(self, "Missing Field",
                        <<"Size entry missing filament_weight", index>>, sizes_json)
        ELSE IF IntRaises(weight) \/ FloatRaises(diameter) THEN Raised(self)
        ELSE IF IterRaises(purchase_links_data) THEN Raised(appended)
        ELSE Returned(appended,
                 [i \in 1..Len(links) |->
                     [k |-> "link", path |-> sizes_json,
                      ctx |-> [pl_entry |-> links[i], size_id |-> size_id,
                               size_index |-> index, link_index |-> i - 1]]])

(***************************************************************************)
(* DataCrawler._create_purchase_link                                       *)
(***************************************************************************)
\* variants of the check below: left out, and inverted (`if store_uuid:`)
UnresolvedNever(store_uuid) == FALSE
UnresolvedInverted(store_uuid) == Truthy(store_uuid)

\* `if not store_uuid:` the reference does not resolve
Unresolved(store_uuid) == ~Truthy(store_uuid)

\* variant of the check below: left out
LacksFieldNever(original_store_id, url) == FALSE

\* `if not original_store_id or not url:`
LacksField(original_store_id, url) == ~Truthy(original_store_id) \/ ~Truthy(url)

create_purchase_link(self, pl_entry, size_id, size_index, link_index, sizes_json) ==
    LET original_store_id == PyGet(pl_entry, "store_id", JNull)
        url == PyGet(pl_entry, "url", JNull)
        \* dict.get: None when the key is unknown
        store_uuid == IF original_store_id \in DOMAIN self.store_cache
                      THEN self.store_cache[original_store_id] ELSE JNull
        pl_id == generate_purchase_link_id(size_id, store_uuid, url)
        pl0 == Overlay(pl_entry.v,
            [id |-> pl_id,
             size_id |-> size_id,
             store_id |-> store_uuid,
             url |-> url,
             spool_refill |-> PyGet(pl_entry, "spool_refill", JBool(FALSE))])
        pl1 == IF "ships_from" \in DOMAIN pl0 /\ Truthy(pl0["ships_from"])
               THEN Overlay(pl0, [ships_from |-> ensure_list(pl0["ships_from"])]) ELSE pl0
        purchase_link ==
               IF "ships_to" \in DOMAIN pl1 /\ Truthy(pl1["ships_to"])
               THEN Overlay(pl1, [ships_to |-> ensure_list(pl1["ships_to"])]) ELSE pl1
    IN  IF pl_entry.t # "obj" THEN Raised(self)
        ELSE IF LacksField(original_store_id, url)
            THEN Warned(self, "Missing Field",
                        <<"Purchase link missing store_id or url", size_index, link_index>>,
                        sizes_json)
        ELSE IF Unresolved(store_uuid)
            THEN Warned(self, "Invalid Reference",
                        <<"Unknown store_id", original_store_id, size_index, link_index>>,
                        sizes_json)
        ELSE Returned([self EXCEPT !.db.purchase_links = Append(@, purchase_link)], <<>>)

(***************************************************************************)
(* DataCrawler._crawl_stores_directory / _crawl_data_directory             *)
(***************************************************************************)
crawl_stores_directory(self, listing) ==
    IF ~Exists(tree, "stores")
    THEN Warned(self, "Directory", <<"Stores directory does not exist">>, <<"stores">>)
    ELSE Returned(self, ChildCalls("store", <<"stores">>, listing, [root |-> "stores"]))

crawl_data_directory(self, listing) ==
    IF ~Exists(tree, "data")
    THEN Warned(self, "Directory", <<"Data directory does not exist">>, <<"data">>)
    ELSE Returned(self, ChildCalls("brand", <<"data">>, listing, [root |-> "data"]))

(***************************************************************************)
(* exporters/csv_exporter.py                                               *)
(***************************************************************************)
EntityType == [brands |-> "brand", materials |-> "material", filaments |-> "filament",
               variants |-> "variant", sizes |-> "size", stores |-> "store",
               purchase_links |-> "purchase_link"]
_KEY_ORDER ==
    [brand |-> <<"id", "name", "slug", "website", "logo_name", "origin", "source">>,
     material |-> <<"id", "brand_id", "material", "slug", "material_class",
                    "default_max_dry_temperature", "default_slicer_settings">>,
     filament |-> <<"id", "brand_id", "material_id", "name", "slug", "material",
                    "density", "diameter_tolerance", "discontinued">>,
     variant |-> <<"id", "filament_id", "slug", "name", "color_hex",
                   "hex_variants", "color_standards", "traits", "discontinued">>,
     size |-> <<"id", "variant_id", "filament_weight", "diameter", "empty_spool_weight",
                "spool_core_diameter", "gtin", "article_number", "discontinued">>,
     store |-> <<"id", "name", "slug", "storefront_url", "logo_name", "ships_from",
                 "ships_to">>,
     purchase_link |-> <<"id", "size_id", "store_id", "url", "spool_refill",
                         "ships_from", "ships_to">>]
_INTERNAL_KEYS == {"directory_name"}

_derive_headers(entities, entity_type) ==
    LET keys0 == UNION {DOMAIN entities[i] : i \in 1..Len(entities)} \ _INTERNAL_KEYS
        all_keys == IF "logo" \in keys0 THEN (keys0 \ {"logo"}) \cup {"logo_name"}
                    ELSE keys0
        ordered == SelectSeq(_KEY_ORDER[entity_type], LAMBDA k : k \in all_keys)
        remaining == SortedKeys(all_keys \ {ordered[i] : i \in 1..Len(ordered)})
    IN  ordered \o remaining

\* the file written: its header row and its rows (an empty file has neither)
_export_entity_csv(entities, entity_type) ==
    IF entities = <<>> THEN [headers |-> <<>>, rows |-> <<>>]
    ELSE LET headers == _derive_headers(entities, entity_type)
         IN  [headers |-> headers,
              rows |-> [i \in 1..Len(entities) |->
                          [h \in 1..Len(headers) |->
                              serialize_for_csv(
                                  Field(entity_to_dict(entities[i]), headers[h]))]]]

export_csv(database) ==
    [c \in Collections |-> _export_entity_csv(database[c], EntityType[c])]

(***************************************************************************)
(* exporters/sqlite_exporter.py: the schema and the insertion.  A table is *)
(* the sequence of its rows; a row maps every column to a value.           *)
(***************************************************************************)
Columns ==
    [brand |-> <<"id", "name", "slug", "website", "logo_name", "origin", "source">>,
     material |-> <<"id", "brand_id", "material", "slug", "material_class",
                    "default_max_dry_temperature", "default_slicer_settings">>,
     filament |-> <<"id", "brand_id", "material_id", "name", "slug", "material",
                    "density", "diameter_tolerance", "shore_hardness_a",
                    "shore_hardness_d", "certifications", "max_dry_temperature",
                    "min_print_temperature", "max_print_temperature",
                    "preheat_temperature", "min_bed_temperature", "max_bed_temperature",
                    "min_chamber_temperature", "max_chamber_temperature",
                    "chamber_temperature", "min_nozzle_diameter", "data_sheet_url",
                    "safety_sheet_url", "discontinued", "slicer_ids", "slicer_settings">>,
     variant |-> <<"id", "filament_id", "slug", "name", "color_hex", "hex_variants",
                   "color_standards", "traits", "discontinued">>,
     size |-> <<"id", "variant_id", "filament_weight", "diameter", "empty_spool_weight",
                "spool_core_diameter", "gtin", "article_number", "barcode_identifier",
                "nfc_identifier", "qr_identifier", "discontinued">>,
     store |-> <<"id", "name", "slug", "storefront_url", "logo_name", "ships_from",
                 "ships_to">>,
     purchase_link |-> <<"id", "size_id", "store_id", "url", "spool_refill",
                         "ships_from", "ships_to">>]
ColumnSet(table) == {Columns[table][i] : i \in 1..Len(Columns[table])}
NotNull ==
    [brand |-> {"name", "slug", "website", "logo_name", "origin"},
     material |-> {"brand_id", "material", "material_class"},
     filament |-> {"brand_id", "material_id", "name", "slug", "material", "density",
                   "diameter_tolerance", "discontinued"},
     variant |-> {"filament_id", "slug", "name", "color_hex", "discontinued"},
     size |-> {"variant_id", "filament_weight", "diameter", "discontinued"},
     store |-> {"name", "slug", "storefront_url", "logo_name", "ships_from", "ships_to"},
     purchase_link |-> {"size_id", "store_id", "url", "spool_refill"}]
\* PRIMARY KEY and UNIQUE columns
UniqueColumns ==
    [brand |-> {"id", "slug"}, material |-> {"id"}, filament |-> {"id"},
     variant |-> {"id"}, size |-> {"id"}, store |-> {"id", "slug"},
     purchase_link |-> {"id"}]
\* REFERENCES: column -> referenced table (its id)
References ==
    [brand |-> NoEntries,
     material |-> [brand_id |-> "brand"],
     filament |-> [brand_id |-> "brand", material_id |-> "material"],
     variant |-> [filament_id |-> "filament"],
     size |-> [variant_id |-> "variant"],
     store |-> NoEntries,
     purchase_link |-> [size_id |-> "size", store_id |-> "store"]]
NoRows == [t \in DOMAIN Columns |-> <<>>]

\* the row insert_entities builds for an entity
RowOf(entity, table) ==
    LET exported == entity_to_dict(entity)
    IN  [col \in ColumnSet(table) |-> serialize_for_sqlite(Field(exported, col))]

\* cursor.execute(sql, values) raises sqlite3.IntegrityError
ViolatesSchema(tables, table, row) ==
    \/ \E col \in NotNull[table] : row[col] = JNull
    \/ \E col \in UniqueColumns[table] :
          row[col] # JNull /\ \E i \in 1..Len(tables[table]) : tables[table][i][col] = row[col]
    \/ \E col \in DOMAIN References[table] :
          /\ row[col] # JNull
          /\ ~\E i \in 1..Len(tables[References[table][col]]) :
                 tables[References[table][col]][i]["id"] = row[col]

\* insert_entities(cursor, entities, table_name), from a state [tables, raised]
RECURSIVE insert_entities(_, _, _)
insert_entities(state, entities, table) ==
    IF state.raised \/ entities = <<>> THEN state
    ELSE LET row == RowOf(Head(entities), table)
         IN  IF ViolatesSchema(state.tables, table, row)
             THEN [state EXCEPT !.raised = TRUE]
             ELSE insert_entities(
                      [state EXCEPT !.tables[table] = Append(@, row)],
                      Tail(entities), table)

\* export_sqlite(db, ...): the seven insertions in the order of the code
InsertOrder == <<"brands", "materials", "filaments", "variants", "sizes", "stores",
                 "purchase_links">>
RECURSIVE InsertAll(_, _, _)
InsertAll(state, database, order) ==
    IF order = <<>> THEN state
    ELSE InsertAll(insert_entities(state, database[Head(order)], EntityType[Head(order)]),
                   database, Tail(order))
\* variant of the operator below: the database file of an earlier export is
\* opened as it is
RemoveExistingNever(existing) == [tables |-> existing.tables, raised |-> FALSE]

\* `if db_path.exists(): db_path.unlink()`, then connect and executescript:
\* a database of empty tables, whatever an earlier export has written
RemoveExisting(existing) == [tables |-> NoRows, raised |-> FALSE]

export_sqlite(database, existing) ==
    InsertAll(RemoveExisting(existing), database, InsertOrder)

\* variant of the operator below: the second argument, whatever the first is
CoalesceSecond(a, b) == b

\* COALESCE(a, b): the first argument that is not NULL
Coalesce(a, b) == IF a # JNull THEN a ELSE b

\* the view v_purchase_offers of a database: one row for every purchase_link
\* row that joins a store, a size, a variant, a filament and a brand (the
\* rows are indexed by the position of the purchase_link row)
v_purchase_offers(tables) ==
    LET Match(table, id) == {j \in 1..Len(tables[table]) : tables[table][j]["id"] = id}
        pl(i) == tables["purchase_link"][i]
        joined == {i \in 1..Len(tables["purchase_link"]) :
                     /\ Match("store", pl(i)["store_id"]) # {}
                     /\ \E s \in Match("size", pl(i)["size_id"]) :
                        \E v \in Match("variant", tables["size"][s]["variant_id"]) :
                        \E f \in Match("filament", tables["variant"][v]["filament_id"]) :
                            Match("brand", tables["filament"][f]["brand_id"]) # {}}
    IN  [i \in joined |->
            LET st == tables["store"][CHOOSE j \in Match("store", pl(i)["store_id"]) : TRUE]
            IN  [purchase_link_id |-> pl(i)["id"],
                 url |-> pl(i)["url"],
                 spool_refill |-> pl(i)["spool_refill"],
                 store_id |-> st["id"],
                 ships_from |-> Coalesce(pl(i)["ships_from"], st["ships_from"]),
                 ships_to |-> Coalesce(pl(i)["ships_to"], st["ships_to"])]]

(***************************************************************************)
(* exporters/sqlite_stores_exporter.py and exporters/badge_exporter.py     *)
(***************************************************************************)
\* the store table (same columns as above) and the store_count of meta
export_sqlite_stores(database, existing) ==
    [file |-> insert_entities(RemoveExisting(existing), database.stores, "store"),
     store_count |-> ToString(Len(database.stores))]

\* the value each badge shows
export_badges(database) ==
    [brands |-> ToString(Len(database.brands)),
     filaments |-> ToString(Len(database.filaments)),
     variants |-> ToString(Len(database.variants)),
     stores |-> ToString(Len(database.stores))]

(***************************************************************************)
(* Source trees.  Trees is a union of families; each family varies one     *)
(* level of the hierarchy and keeps a fixed, well-formed spine elsewhere.  *)
(***************************************************************************)
MaxStores == 2      \* store directories in the stores family
MaxSiblings == 2    \* sibling directories at the varied level of the data family
MaxSizes == 2       \* entries of a sizes.json in the sizes family
MaxLinks == 2       \* purchase links of one size in the links family

SiblingNames == <<"a", "b", "c", "d">>
FirstNames(n) == {SiblingNames[i] : i \in 1..n}
\* every assignment of a document to some of the first n names
Assignments(n, docs) == UNION {[S -> docs] : S \in SUBSET FirstNames(n)}
\* every sequence of at most n elements of S
SeqUpTo(n, S) == UNION {[1..k -> S] : k \in 0..n}

File(name, doc) == IF doc = FMissing THEN NoEntries ELSE (name :> doc)
Obj0 == JObj(NoEntries)

Link(store_id, url) == JObj(("store_id" :> JStr(store_id)) @@ ("url" :> JStr(url)))
GoodLink == Link("acme-store", "https://x/y")
SizeEntry(weight, links) ==
    JObj(("filament_weight" :> weight) @@ ("diameter" :> JFloat(175))
         @@ ("purchase_links" :> JList(links)))

StoreDocs == {FMissing, FMalformed, JList(<<>>),
              JObj([name |-> JStr("No Id")]),
              JObj([id |-> JStr("acme-store"), name |-> JStr("Acme")]),
              JObj([id |-> JStr("other-store"), name |-> JStr("Acme")])}
BrandDocs == {FMissing, FMalformed, JList(<<>>), JObj([name |-> JStr("Acme")])}
MaterialDocs == {FMissing, FMalformed, JObj([material |-> JStr("PLA")])}
FilamentDocs == {FMissing, FMalformed, Obj0, JObj([name |-> JStr("Basic")])}
VariantDocs == {FMissing, FMalformed, JStr("red"), Obj0,
                JObj([id |-> JStr("red"), name |-> JStr("Red"),
                      color_hex |-> JList(<<JStr("#AbC123"), JStr("#000000")>>)])}
\* variant.json documents that differ in color_hex or in hex_variants
ColourValues == {JStr("abc123"), JStr("red"), JStr(""), JNum(5), JNull, JList(<<>>),
                 JList(<<JStr("abc123"), JStr("red")>>), JList(<<JStr("red")>>),
                 JList(<<JStr("")>>), JList(<<JNum(5)>>)}
HexVariantValues == {JNull, JList(<<>>), JList(<<JStr("")>>),
                     JList(<<JStr("abc123"), JStr("")>>),
                     JList(<<JStr("#AbC123"), JStr("red")>>)}
ColourDocs == {JObj([color_hex |-> c]) : c \in ColourValues}
              \cup {JObj([hex_variants |-> h]) : h \in HexVariantValues}
LinkKinds == {GoodLink, Link("other-store", "https://x/y"), Link("missing", "https://x/y"),
              JObj([store_id |-> JStr("missing")]), JObj([url |-> JStr("https://x/y")]),
              Link("acme-store", "https://x/z"), Link("a", "https://x/y")}
EntryKinds == {SizeEntry(JNum(1000), <<GoodLink>>),
               JObj([filament_weight |-> JNum(1000), diameter |-> JNum(0)]),
               JObj([diameter |-> JFloat(175),
                     purchase_links |-> JList(<<GoodLink, Link("missing", "https://x/y")>>)]),
               JObj([filament_weight |-> JStr("1000")]),
               JObj([filament_weight |-> JStr("1kg")]),
               JObj([filament_weight |-> JNum(250), purchase_links |-> JNull]),
               JStr("1000")}

\* sizes.json entries that differ in diameter, or in gtin and ean
Weighed(fields) == JObj(("filament_weight" :> JNum(1000)) @@ fields)
DiameterValues == {JNum(0), JFloat(0), JNull, JFloat(285), JNum(3), JStr("0")}
BarcodeEntries == {Weighed([ean |-> JStr("012345")]),
                   Weighed([gtin |-> JStr("999")]),
                   Weighed([gtin |-> JStr("999"), ean |-> JStr("012345")]),
                   Weighed([gtin |-> JStr(""), ean |-> JStr("012345")]),
                   Weighed([gtin |-> JNull, ean |-> JStr("012345")]),
                   Weighed([ean |-> JStr("")])}
FieldEntries == {Weighed(NoEntries)} \cup {Weighed([diameter |-> d]) : d \in DiameterValues}
                \cup BarcodeEntries
\* purchase links that differ in the shipping overrides
Shipped(fields) == JObj(GoodLink.v @@ fields)
ShippingLinks == {Shipped([ships_from |-> JStr("US")]),
                  Shipped([ships_from |-> JList(<<JStr("US"), JStr("DE")>>),
                           ships_to |-> JStr("DE")]),
                  Shipped([ships_from |-> JStr("")]),
                  Shipped([ships_to |-> JStr("")]),
                  Shipped([ships_to |-> JList(<<>>)]),
                  Shipped([ships_from |-> JNull])}

StoreDir(doc) == Dir(File("store.json", doc), NoEntries)
VariantDir(doc, sizes) == Dir(File("variant.json", doc) @@ File("sizes.json", sizes), NoEntries)
FilamentDir(doc, variants) == Dir(File("filament.json", doc), variants)
MaterialDir(doc, filaments) == Dir(File("material.json", doc), filaments)
BrandDir(doc, materials) == Dir(File("brand.json", doc), materials)
Root(stores, data) == Dir(NoEntries, ("stores" :> Dir(NoEntries, stores))
                                     @@ ("data" :> Dir(NoEntries, data)))

\* the spine: one store, one brand / material / filament / variant / size
SpineStores == ("a" :> StoreDir(JObj([id |-> JStr("acme-store"), name |-> JStr("Acme")])))
SpineSizes == JList(<<SizeEntry(JNum(1000), <<GoodLink, Link("missing", "https://x/y")>>)>>)
SpineVariant == VariantDir(Obj0, SpineSizes)
SpineFilament == FilamentDir(Obj0, ("a" :> SpineVariant))
SpineMaterial == MaterialDir(FMissing, ("a" :> SpineFilament))
SpineBrand == BrandDir(JObj([name |-> JStr("Acme")]), ("a" :> SpineMaterial))
SpineData == ("a" :> SpineBrand)
\* a data tree that holds one variant with the given sizes.json
DataWithSizes(sizes) ==
    ("a" :> BrandDir(Obj0, ("a" :> MaterialDir(FMissing,
        ("a" :> FilamentDir(Obj0, ("a" :> VariantDir(Obj0, sizes))))))))

StoresFamily ==
    {Root([n \in DOMAIN a |-> StoreDir(a[n])], SpineData) :
        a \in Assignments(MaxStores, StoreDocs)}
RootsFamily ==
    {Dir(NoEntries, ("data" :> Dir(NoEntries, SpineData))),
     Dir(NoEntries, ("stores" :> Dir(NoEntries, SpineStores))),
     EmptyDir,
     \* a stray file and a hidden directory at every level's side
     Dir(("README.md" :> FMalformed),
         ("stores" :> Dir(("README.md" :> FMalformed),
                          SpineStores @@ (".hidden" :> StoreDir(Obj0))))
         @@ ("data" :> Dir(("README.md" :> FMalformed),
                          SpineData @@ (".hidden" :> SpineBrand)))),
     \* the same beside every level below a brand
     Root(SpineStores,
          ("a" :> Dir(File("brand.json", Obj0) @@ File("README.md", FMalformed),
             (".hidden" :> SpineMaterial) @@
             ("a" :> Dir(File("README.md", FMalformed),
                (".hidden" :> SpineFilament) @@
                ("a" :> Dir(File("filament.json", Obj0) @@ File("README.md", FMalformed),
                   (".hidden" :> SpineVariant) @@ ("a" :> SpineVariant)
                   @@ ("b" :> SpineVariant))))))))}
BrandsFamily ==
    {Root(SpineStores, [n \in DOMAIN a |-> BrandDir(a[n], ("a" :> SpineMaterial))]) :
        a \in Assignments(MaxSiblings, BrandDocs)}
MaterialsFamily ==
    {Root(SpineStores, ("a" :> BrandDir(Obj0,
        [n \in DOMAIN a |-> MaterialDir(a[n], ("a" :> SpineFilament))]))) :
        a \in Assignments(MaxSiblings, MaterialDocs)}
FilamentsFamily ==
    {Root(SpineStores, ("a" :> BrandDir(Obj0, ("a" :> MaterialDir(FMissing,
        [n \in DOMAIN a |-> FilamentDir(a[n], ("a" :> SpineVariant))]))))) :
        a \in Assignments(MaxSiblings, FilamentDocs)}
VariantsFamily ==
    {Root(SpineStores, ("a" :> BrandDir(Obj0, ("a" :> MaterialDir(FMissing,
        ("a" :> FilamentDir(Obj0, [n \in DOMAIN a |-> VariantDir(a[n], SpineSizes)]))))))) :
        a \in Assignments(MaxSiblings, VariantDocs)}
ColoursFamily ==
    {Root(SpineStores, ("a" :> BrandDir(Obj0, ("a" :> MaterialDir(FMissing,
        ("a" :> FilamentDir(Obj0, ("a" :> VariantDir(doc, SpineSizes))))))))) :
        doc \in ColourDocs}
FieldsFamily ==
    {Root(SpineStores, DataWithSizes(JList(<<e>>))) : e \in FieldEntries}
\* purchase links whose store_id or url is null or empty
LackingLinks == {JObj([store_id |-> JNull, url |-> JStr("https://x/y")]),
                 JObj([store_id |-> JStr(""), url |-> JStr("https://x/y")]),
                 JObj([store_id |-> JStr("acme-store"), url |-> JNull]),
                 JObj([store_id |-> JStr("acme-store"), url |-> JStr("")]),
                 JObj([store_id |-> JStr("missing"), url |-> JStr("")]),
                 Obj0}
\* a store that declares where it ships from and to
ShippingStores ==
    ("a" :> StoreDir(JObj([id |-> JStr("acme-store"), name |-> JStr("Acme"),
                           ships_from |-> JList(<<JStr("NL")>>),
                           ships_to |-> JStr("EU")])))
ShippingFamily ==
    {Root(ShippingStores, DataWithSizes(JList(<<SizeEntry(JNum(1000), <<l>>)>>))) :
        l \in ShippingLinks \cup LackingLinks}
\* one document of the spine holds a further key: an unrecognized one, one
\* named like an export column, the internal marker, or an explicit null
Levels == {"store", "brand", "material", "filament", "variant", "size", "link"}
ExtraFields == {[x_note |-> JStr("n")], [x_note |-> JList(<<JNum(1), JBool(TRUE)>>)],
                [x_note |-> JNull], [logo |-> JStr("l.png")],
                [logo_name |-> JStr("m.png")], [directory_name |-> JStr("zz")],
                [id |-> JStr("zz"), brand_id |-> JStr("zz"), material_id |-> JStr("zz"),
                 filament_id |-> JStr("zz"), variant_id |-> JStr("zz"),
                 size_id |-> JStr("zz")]}
NullFields == {<<"store", [storefront_url |-> JNull]>>, <<"brand", [website |-> JNull]>>,
               <<"material", [material_class |-> JNull]>>}
WithExtra(level, extra) ==
    LET X(l, base) == IF l = level THEN JObj(extra @@ base.v) ELSE base
    IN  Root(("a" :> StoreDir(X("store", JObj([id |-> JStr("acme-store"),
                                              name |-> JStr("Acme")])))),
             ("a" :> BrandDir(X("brand", JObj([name |-> JStr("Acme")])),
              ("a" :> MaterialDir(X("material", JObj([material |-> JStr("PLA")])),
               ("a" :> FilamentDir(X("filament", JObj([name |-> JStr("Basic")])),
                ("a" :> VariantDir(X("variant", JObj([id |-> JStr("red")])),
                    JList(<<X("size", JObj(
                        ("filament_weight" :> JNum(1000))
                        @@ ("purchase_links" :> JList(<<X("link", GoodLink)>>))))>>))))))))))
PassThroughFamily ==
    {WithExtra(l, e) : l \in Levels, e \in ExtraFields}
    \cup {WithExtra(n[1], n[2]) : n \in NullFields}
SizesFamily ==
    {Root(SpineStores, DataWithSizes(s)) :
        s \in {FMalformed, SizeEntry(JNum(1000), <<GoodLink>>)}
              \cup {JList(e) : e \in SeqUpTo(MaxSizes, EntryKinds)}}
LinksFamily ==
    {Root(SpineStores @@ ("b" :> StoreDir(JObj([id |-> JStr("other-store")]))),
          DataWithSizes(JList(<<SizeEntry(JNum(1000), l)>>))) :
        l \in SeqUpTo(MaxLinks, LinkKinds)}
Trees == StoresFamily \cup RootsFamily \cup BrandsFamily \cup MaterialsFamily
         \cup FilamentsFamily \cup VariantsFamily \cup SizesFamily \cup LinksFamily
         \cup ColoursFamily \cup FieldsFamily \cup ShippingFamily \cup PassThroughFamily

(***************************************************************************)
(* Edits of the source tree between two builds: one sibling directory, or  *)
(* one entry of a sizes.json, is removed (read backwards: added).  The     *)
(* builds considered are those whose both trees are in Trees.              *)
(***************************************************************************)
RECURSIVE DirPaths(_)
DirPaths(d) ==
    {<<>>} \cup UNION {{<<n>> \o p : p \in DirPaths(d.dirs[n])} : n \in DOMAIN d.dirs}
RECURSIVE RemoveDir(_, _)
RemoveDir(d, path) ==
    IF Len(path) = 1
    THEN [d EXCEPT !.dirs = [n \in DOMAIN d.dirs \ {path[1]} |-> d.dirs[n]]]
    ELSE [d EXCEPT !.dirs[path[1]] = RemoveDir(@, Tail(path))]
RECURSIVE SetFile(_, _, _, _)
SetFile(d, path, name, doc) ==
    IF path = <<>> THEN [d EXCEPT !.files = (name :> doc) @@ @]
    ELSE [d EXCEPT !.dirs[path[1]] = SetFile(@, Tail(path), name, doc)]
RemoveAt(s, i) == SubSeq(s, 1, i - 1) \o SubSeq(s, i + 1, Len(s))

WithoutOneSibling(t) ==
    {RemoveDir(t, p) : p \in {q \in DirPaths(t) : Len(q) >= 2}}
WithoutOneSizeEntry(t) ==
    UNION {LET f == ReadFile(NodeAt(t, p), "sizes.json")
           IN  IF f.t = "list"
               THEN {SetFile(t, p, "sizes.json", JList(RemoveAt(f.v, i))) :
                        i \in 1..Len(f.v)}
               ELSE {}
           : p \in DirPaths(t)}
Removals(t) == WithoutOneSibling(t) \cup WithoutOneSizeEntry(t)

\* Edits of one variant directory: it is renamed (the name is new among its
\* siblings), or the display name or the colour in its variant.json changes.
RECURSIVE RenameDir(_, _, _)
RenameDir(d, path, new) ==
    IF Len(path) = 1
    THEN [d EXCEPT !.dirs = (new :> d.dirs[path[1]])
                            @@ [n \in DOMAIN d.dirs \ {path[1]} |-> d.dirs[n]]]
    ELSE [d EXCEPT !.dirs[path[1]] = RenameDir(@, Tail(path), new)]
VariantPaths(t) == {p \in DirPaths(t) : Len(p) = 5 /\ p[1] = "data"}
HasExplicitId(t, p) ==
    LET doc == ReadFile(NodeAt(t, p), "variant.json")
    IN  doc.t = "obj" /\ "id" \in DOMAIN doc.v
RenameTargets == {"c", "d"}
Renamings(t, paths) ==
    UNION {{RenameDir(t, p, new) :
                new \in RenameTargets \ DOMAIN NodeAt(t, SubSeq(p, 1, Len(p) - 1)).dirs}
           : p \in paths}
Redisplays(t) ==
    UNION {LET doc == ReadFile(NodeAt(t, p), "variant.json")
           IN  IF doc.t = "obj"
               THEN {SetFile(t, p, "variant.json",
                             JObj(("name" :> JStr("Crimson")) @@ doc.v)),
                     SetFile(t, p, "variant.json",
                             JObj(("color_hex" :> JStr("abc123")) @@ doc.v))}
               ELSE {}
           : p \in VariantPaths(t)}
ExplicitIdRenamings(t) == Renamings(t, {p \in VariantPaths(t) : HasExplicitId(t, p)})
VariantEdits(t) == Renamings(t, VariantPaths(t)) \cup Redisplays(t)

(***************************************************************************)
(* DataCrawler.__init__ and the steps of crawl()                           *)
(***************************************************************************)
NoPrev == [pc |-> "none"]
\* the artifacts: whether each exporter ran, and what it wrote
NoFiles == [c \in Collections |-> [headers |-> <<>>, rows |-> <<>>]]
NoDatabase == [tables |-> NoRows, raised |-> FALSE]
NoExport == [csv_written |-> FALSE, csv |-> NoFiles,
             sqlite_written |-> FALSE, sqlite |-> NoDatabase,
             stores_written |-> FALSE,
             stores |-> [file |-> NoDatabase, store_count |-> ""],
             badges_written |-> FALSE,
             badges |-> [brands |-> "", filaments |-> "", variants |-> "", stores |-> ""]]

NewCrawler ==
    /\ db = Database
    /\ result = BuildResult
    /\ store_cache = NoEntries
    /\ material_cache = NoEntries
    /\ brand_cache = NoEntries
    /\ pc = "start"
    /\ stack = <<>>
    /\ artifacts = NoExport

Init ==
    /\ tree \in Trees
    /\ other = tree
    /\ prev = NoPrev
    /\ NewCrawler

\* A build of a tree that is built again unchanged.
InitRebuild == Init

\* A build of a tree that is edited (one sibling added or removed) before it is
\* built again.
InitEdit ==
    /\ \E full \in Trees : \E less \in Removals(full) \cap Trees : \E first \in {full, less} :
          /\ tree = first
          /\ other = IF first = full THEN less ELSE full
    /\ prev = NoPrev
    /\ NewCrawler

\* A build of a tree of which one variant directory is edited before it is
\* built again.
InitRename ==
    /\ tree \in VariantsFamily
    /\ other \in VariantEdits(tree)
    /\ prev = NoPrev
    /\ NewCrawler

\* The handler returned (or raised): its effect on the crawler, and its calls
\* go on top of the pending ones.
Apply(out, rest, next_pc) ==
    /\ db' = out.self.db
    /\ result' = out.self.result
    /\ store_cache' = out.self.store_cache
    /\ material_cache' = out.self.material_cache
    /\ brand_cache' = out.self.brand_cache
    /\ pc' = IF out.raised THEN "raised" ELSE next_pc
    /\ stack' = IF out.raised THEN <<>> ELSE out.calls \o rest
    /\ UNCHANGED <<tree, prev, other, artifacts>>

Listings(path) ==
    IF \A i \in 1..Len(path) : Exists(NodeAt(tree, SubSeq(path, 1, i - 1)), path[i])
    THEN IterDirOrders(NodeAt(tree, path)) ELSE {<<>>}

Top(kind) == stack # <<>> /\ Head(stack).k = kind

CrawlStoresDirectory ==
    /\ pc = "start"
    /\ \E listing \in Listings(<<"stores">>) :
          Apply(crawl_stores_directory(Self, listing), <<>>, "stores")

ProcessStoreDirectory ==
    /\ pc = "stores" /\ Top("store")
    /\ Apply(process_store_directory(Self, Head(stack).path), Tail(stack), pc)

CrawlDataDirectory ==
    /\ pc = "stores" /\ stack = <<>>
    /\ \E listing \in Listings(<<"data">>) :
          Apply(crawl_data_directory(Self, listing), <<>>, "data")

ProcessBrandDirectory ==
    /\ pc = "data" /\ Top("brand")
    /\ \E listing \in Listings(Head(stack).path) :
          Apply(process_brand_directory(Self, Head(stack).path, listing), Tail(stack), pc)

ProcessMaterialDirectory ==
    /\ pc = "data" /\ Top("material")
    /\ \E listing \in Listings(Head(stack).path) :
          Apply(process_material_directory(Self, Head(stack).path,
                    Head(stack).ctx.brand_id, listing), Tail(stack), pc)

ProcessFilamentDirectory ==
    /\ pc = "data" /\ Top("filament")
    /\ \E listing \in Listings(Head(stack).path) :
          Apply(process_filament_directory(Self, Head(stack).path, Head(stack).ctx, listing),
                Tail(stack), pc)

ProcessVariantDirectory ==
    /\ pc = "data" /\ Top("variant")
    /\ Apply(process_variant_directory(Self, Head(stack).path, Head(stack).ctx.filament_id),
             Tail(stack), pc)

ProcessSizesFile ==
    /\ pc = "data" /\ Top("sizes_file")
    /\ Apply(process_sizes_file(Self, Head(stack).path, Head(stack).ctx.variant_id),
             Tail(stack), pc)

CreateSize ==
    /\ pc = "data" /\ Top("size")
    /\ LET c == Head(stack).ctx
       IN  Apply(create_size(Self, c.size_entry, c.variant_id, c.index, Head(stack).path),
                 Tail(stack), pc)

CreatePurchaseLink ==
    /\ pc = "data" /\ Top("link")
    /\ LET c == Head(stack).ctx
       IN  Apply(create_purchase_link(Self, c.pl_entry, c.size_id, c.size_index,
                     c.link_index, Head(stack).path), Tail(stack), pc)

\* crawl() returns (self.db, self._result)
Return ==
    /\ pc = "data" /\ stack = <<>>
    /\ pc' = "done"
    /\ UNCHANGED <<tree, stack, db, result, store_cache, material_cache, brand_cache,
                   prev, other, artifacts>>

\* variant of the action below: the store cache of the build before is kept
RebuildKeepingStoreCache ==
    /\ pc \in {"done", "raised"}
    /\ prev = NoPrev
    /\ prev' = [pc |-> pc, db |-> db, result |-> result, tree |-> tree]
    /\ tree' = other
    /\ other' = tree
    /\ db' = Database
    /\ result' = BuildResult
    /\ material_cache' = NoEntries
    /\ brand_cache' = NoEntries
    /\ pc' = "start"
    /\ stack' = <<>>
    /\ UNCHANGED <<artifacts, store_cache>>

\* crawl_data() is called again, on the tree as it is by then: a new
\* DataCrawler, a new Database and BuildResult.
Rebuild ==
    /\ pc \in {"done", "raised"}
    /\ prev = NoPrev
    /\ prev' = [pc |-> pc, db |-> db, result |-> result, tree |-> tree]
    /\ tree' = other
    /\ other' = tree
    /\ db' = Database
    /\ result' = BuildResult
    /\ store_cache' = NoEntries
    /\ material_cache' = NoEntries
    /\ brand_cache' = NoEntries
    /\ pc' = "start"
    /\ stack' = <<>>
    /\ UNCHANGED artifacts

\* An exporter runs on the snapshot crawl() returned; it may run again.
ExportCsv ==
    /\ pc = "done"
    /\ artifacts' = [artifacts EXCEPT !.csv_written = TRUE, !.csv = export_csv(db)]
    /\ UNCHANGED <<tree, pc, stack, db, result, store_cache, material_cache, brand_cache,
                   prev, other>>

ExportSqlite ==
    /\ pc = "done"
    /\ artifacts' = [artifacts EXCEPT !.sqlite_written = TRUE,
                                      !.sqlite = export_sqlite(db, artifacts.sqlite)]
    /\ UNCHANGED <<tree, pc, stack, db, result, store_cache, material_cache, brand_cache,
                   prev, other>>

ExportSqliteStores ==
    /\ pc = "done"
    /\ artifacts' = [artifacts EXCEPT
                        !.stores_written = TRUE,
                        !.stores = export_sqlite_stores(db, artifacts.stores.file)]
    /\ UNCHANGED <<tree, pc, stack, db, result, store_cache, material_cache, brand_cache,
                   prev, other>>

ExportBadges ==
    /\ pc = "done"
    /\ artifacts' = [artifacts EXCEPT !.badges_written = TRUE, !.badges = export_badges(db)]
    /\ UNCHANGED <<tree, pc, stack, db, result, store_cache, material_cache, brand_cache,
                   prev, other>>

Next ==
    \/ CrawlStoresDirectory
    \/ ProcessStoreDirectory
    \/ CrawlDataDirectory
    \/ ProcessBrandDirectory
    \/ ProcessMaterialDirectory
    \/ ProcessFilamentDirectory
    \/ ProcessVariantDirectory
    \/ ProcessSizesFile
    \/ CreateSize
    \/ CreatePurchaseLink
    \/ Return

Spec == Init /\ [][Next]_vars

NextRebuild == Next \/ Rebuild

SpecRebuild == InitRebuild /\ [][NextRebuild]_vars

SpecEdit == InitEdit /\ [][NextRebuild]_vars

SpecRename == InitRename /\ [][NextRebuild]_vars

(***************************************************************************)
(* crawl_data(data_dir, stores_dir) as one function of the tree: a new     *)
(* DataCrawler, then crawl() to its end.  The order in which iterdir()     *)
(* yields is any one; every loop sorts.                                    *)
(***************************************************************************)
AnyListing(path) == CHOOSE listing \in Listings(path) : TRUE
\* the call a pending frame stands for
Handle(self, frame) ==
    CASE frame.k = "store" -> process_store_directory(self, frame.path)
      [] frame.k = "brand" ->
            process_brand_directory(self, frame.path, AnyListing(frame.path))
      [] frame.k = "material" ->
            process_material_directory(self, frame.path, frame.ctx.brand_id,
                                       AnyListing(frame.path))
      [] frame.k = "filament" ->
            process_filament_directory(self, frame.path, frame.ctx, AnyListing(frame.path))
      [] frame.k = "variant" ->
            process_variant_directory(self, frame.path, frame.ctx.filament_id)
      [] frame.k = "sizes_file" ->
            process_sizes_file(self, frame.path, frame.ctx.variant_id)
      [] frame.k = "size" ->
            create_size(self, frame.ctx.size_entry, frame.ctx.variant_id, frame.ctx.index,
                        frame.path)
      [] frame.k = "link" ->
            create_purchase_link(self, frame.ctx.pl_entry, frame.ctx.size_id,
                                 frame.ctx.size_index, frame.ctx.link_index, frame.path)
RECURSIVE RunCalls(_, _)
RunCalls(self, calls) ==
    IF calls = <<>> THEN [self |-> self, raised |-> FALSE]
    ELSE LET out == Handle(self, Head(calls))
         IN  IF out.raised THEN [self |-> out.self, raised |-> TRUE]
             ELSE RunCalls(out.self, out.calls \o Tail(calls))
\* DataCrawler(data_dir, stores_dir).crawl() on the tree as it is
crawl_data ==
    LET crawler == [db |-> Database, result |-> BuildResult, store_cache |-> NoEntries,
                    material_cache |-> NoEntries, brand_cache |-> NoEntries]
        stores == crawl_stores_directory(crawler, AnyListing(<<"stores">>))
        after_stores == RunCalls(stores.self, stores.calls)
        data == crawl_data_directory(after_stores.self, AnyListing(<<"data">>))
        after_data == RunCalls(data.self, data.calls)
        last == IF after_stores.raised THEN after_stores ELSE after_data
    IN  [pc |-> IF last.raised THEN "raised" ELSE "done",
         db |-> last.self.db, result |-> last.self.result]

\* Builds of a tree that is edited in between, each followed or not by the
\* export of the database.
NextBuilds == NextRebuild \/ ExportSqlite

SpecBuilds == InitEdit /\ [][NextBuilds]_vars

NextExport == Next \/ ExportCsv \/ ExportSqlite \/ ExportSqliteStores \/ ExportBadges

SpecExport == Init /\ [][NextExport]_vars

(***************************************************************************)
(* Properties                                                              *)
(***************************************************************************)
Ids(rows) == [i \in 1..Len(rows) |-> rows[i]["id"]]
IdSet(rows) == {rows[i]["id"] : i \in 1..Len(rows)}
Rows(rows) == {rows[i] : i \in 1..Len(rows)}
Count(log, category) == Cardinality({i \in 1..Len(log) : log[i].category = category})

\* C1: referential integrity.  In every state of the crawl, every foreign key
\* of every entity in the snapshot is the id of an entity of the referenced
\* collection: purchase link -> store and size, size -> variant, variant ->
\* filament, filament -> material and brand, material -> brand.
C1_ReferentialIntegrity ==
    /\ \A pl \in Rows(db.purchase_links) :
          pl["store_id"] \in IdSet(db.stores) /\ pl["size_id"] \in IdSet(db.sizes)
    /\ \A z \in Rows(db.sizes) : z["variant_id"] \in IdSet(db.variants)
    /\ \A v \in Rows(db.variants) : v["filament_id"] \in IdSet(db.filaments)
    /\ \A f \in Rows(db.filaments) :
          f["material_id"] \in IdSet(db.materials) /\ f["brand_id"] \in IdSet(db.brands)
    /\ \A m \in Rows(db.materials) : m["brand_id"] \in IdSet(db.brands)

\* a finished crawl that stored a resolved link and dropped an unresolved one
C1_Witness ==
    /\ pc = "done"
    /\ Len(db.purchase_links) >= 1
    /\ Count(result, "Invalid Reference") >= 1

\* C2: identifiers are unique per entity type.  In the snapshot crawl()
\* returns, no two entities of one collection have the same id.
C2_UniqueIds ==
    pc = "done" =>
        \A c \in Collections : \A i, j \in 1..Len(db[c]) :
            i # j => db[c][i]["id"] # db[c][j]["id"]

\* C3: no data-quality problem is fatal.  crawl() never ends with an
\* exception, whatever the documents hold.
C3_NeverRaises == pc # "raised"

\* The step is one handler returning after a single warning of the given
\* category: the log grows by that record, no entity is stored, nothing is
\* raised, and the crawl goes on with what was pending before (the node's
\* children are not visited, its next sibling is).
OneWarningOnly(category) ==
    /\ Len(result') = Len(result) + 1
    /\ SubSeq(result', 1, Len(result)) = result
    /\ result'[Len(result')].category = category
    /\ result'[Len(result')].level = "WARNING"
    /\ db' = db
    /\ pc' = pc
    /\ stack' = Tail(stack)

MarkerName == [store |-> "store.json", brand |-> "brand.json", material |-> "material.json",
               filament |-> "filament.json", variant |-> "variant.json"]
\* the marker document of the node the pending call is about
MarkerOf(frame) ==
    IF frame.k = "sizes_file"
    THEN ReadFile(NodeAt(tree, SubSeq(frame.path, 1, Len(frame.path) - 1)), "sizes.json")
    ELSE ReadFile(NodeAt(tree, frame.path), MarkerName[frame.k])

RootMissing == ~Exists(tree, "stores") \/ ~Exists(tree, "data")

\* C4: failure only, and always, on a missing root.  When crawl() has returned:
\* if the stores root or the data root does not exist the result is a failure
\* and nothing was built; if both exist the result is a success.
C4_FailureIffRootMissing ==
    pc = "done" =>
        IF RootMissing THEN IsFailure(result) /\ db = Database
        ELSE ~IsFailure(result)

\* C5: a missing store.json, brand.json, filament.json or variant.json gives
\* one "Missing File" warning for that directory, no entity for the node or
\* anything beneath it, and the crawl continues with the next sibling.
C5_MissingMarkerWarns ==
    [][(/\ stack # <<>>
        /\ Head(stack).k \in {"store", "brand", "filament", "variant"}
        /\ MarkerOf(Head(stack)) = FMissing)
       => (/\ OneWarningOnly("Missing File")
           /\ result'[Len(result')].path = Head(stack).path)]_vars

\* C6: a malformed store.json, brand.json, material.json, filament.json,
\* variant.json or sizes.json gives one "JSON Parse" warning and the node is
\* skipped: no entity is created for it and nothing beneath it is visited.
C6_MalformedSkipsNode ==
    [][(/\ stack # <<>>
        /\ Head(stack).k \in DOMAIN MarkerName \cup {"sizes_file"}
        /\ MarkerOf(Head(stack)) = FMalformed)
       => OneWarningOnly("JSON Parse")]_vars

\* the pending call is _create_purchase_link on an object whose store_id is
\* not the declared id of any store crawled in the stores pass
UnresolvableLink ==
    /\ Top("link")
    /\ Head(stack).ctx.pl_entry.t = "obj"
    /\ PyGet(Head(stack).ctx.pl_entry, "store_id", JNull) \notin DOMAIN store_cache
\* ... dropped with one "Invalid Reference" warning, its size kept
DroppedAsInvalidReference ==
    /\ OneWarningOnly("Invalid Reference")
    /\ Head(stack).ctx.size_id \in IdSet(db'.sizes)

\* C7 as stated: every purchase link whose store_id is not the declared id of
\* a crawled store gives exactly one "Invalid Reference" warning and no
\* PurchaseLink, the owning Size stays, the remaining links are processed.
C7_UnresolvedAlwaysInvalidReference ==
    [][UnresolvableLink => DroppedAsInvalidReference]_vars

\* C7 amended: the same for every purchase link that has a non-empty store_id
\* and a non-empty url (a link that lacks either is reported as a missing
\* field before the store is looked up).
C7_UnresolvedInvalidReference ==
    [][(/\ UnresolvableLink
        /\ Truthy(PyGet(Head(stack).ctx.pl_entry, "store_id", JNull))
        /\ Truthy(PyGet(Head(stack).ctx.pl_entry, "url", JNull)))
       => DroppedAsInvalidReference]_vars

\* an unresolved link was just dropped, its size is in the snapshot without
\* any purchase link, and the next link of the same size is pending
C7_Witness ==
    /\ result # <<>>
    /\ result[Len(result)].category = "Invalid Reference"
    /\ Len(db.sizes) = 1
    /\ db.purchase_links = <<>>
    /\ Top("link")

\* C8: a sizes.json entry (an object) without filament_weight gives exactly
\* one "Missing Field" warning and nothing else: no Size, no PurchaseLink and
\* no warning for its nested links, no exception, and the later entries stay
\* pending.  A Size that is stored has the weight of its source entry.
C8_MissingWeightDropsEntry ==
    [][(Top("size") /\ Head(stack).ctx.size_entry.t = "obj")
       => LET weight == PyGet(Head(stack).ctx.size_entry, "filament_weight", JNull)
          IN  IF weight = JNull
              THEN OneWarningOnly("Missing Field")
              ELSE Len(db'.sizes) > Len(db.sizes)
                   => db'.sizes[Len(db'.sizes)]["filament_weight"] = PyInt(weight)]_vars

\* a finished crawl whose only warning is for entry [0] of a sizes.json that
\* lacked the weight (its two nested links gave none), a later entry stored
C8_Witness ==
    /\ pc = "done"
    /\ Len(result) = 1
    /\ result[1].message = <<"Size entry missing filament_weight", 0>>
    /\ Len(db.sizes) = 1

\* C9: determinism.  A second crawl of the unchanged tree by a new DataCrawler
\* ends as the first did, with equal collections (same identifiers, same row
\* order) and an equal diagnostics list.
C9_Deterministic ==
    (prev.pc # "none" /\ pc \in {"done", "raised"})
        => (pc = prev.pc /\ db = prev.db /\ result = prev.result)

\* both crawls returned, with several siblings and a warning
C9_Witness ==
    /\ prev.pc = "done"
    /\ pc = "done"
    /\ tree = prev.tree
    /\ Len(db.stores) >= 2
    /\ Len(result) >= 1

RECURSIVE IsSubseq(_, _)
IsSubseq(s, t) ==
    IF s = <<>> THEN TRUE
    ELSE IF t = <<>> THEN FALSE
    ELSE IF Head(s) = Head(t) THEN IsSubseq(Tail(s), Tail(t))
    ELSE IsSubseq(s, Tail(t))

\* C10: changing an unrelated sibling changes no other identifier.  When a
\* sibling (a directory, or an entry of a sizes.json) was added between two
\* builds, the identifiers of every collection of the first build appear in
\* the second in the same relative order; when one was removed, those of the
\* second appear in the first.
C10_SiblingsKeepIds ==
    (prev.pc = "done" /\ pc = "done")
        => \A c \in Collections :
              IF tree \in Removals(prev.tree)
              THEN IsSubseq(Ids(db[c]), Ids(prev.db[c]))
              ELSE IsSubseq(Ids(prev.db[c]), Ids(db[c]))

\* C11: a Variant's identifier is derived from (filament id, source id), the
\* source id being the 'id' of variant.json and the directory name only when
\* that field is absent.  When a variant directory whose variant.json holds
\* an explicit 'id' was renamed between two builds, or the display name or
\* the colour of a variant changed, both builds give the same identifiers of
\* variants, sizes and purchase links.
VariantSubtree == {"variants", "sizes", "purchase_links"}
C11_RenameKeepsVariantId ==
    (prev.pc = "done" /\ pc = "done"
     /\ tree \in ExplicitIdRenamings(prev.tree) \cup Redisplays(prev.tree))
        => \A c \in VariantSubtree : IdSet(db[c]) = IdSet(prev.db[c])

\* both builds ended, the renamed variant (explicit id) has a size and a link
C11_Witness ==
    /\ prev.pc = "done" /\ pc = "done"
    /\ tree \in ExplicitIdRenamings(prev.tree)
    /\ db.variants # <<>> /\ db.sizes # <<>> /\ db.purchase_links # <<>>

\* the variant.json of the variant directory that is being processed, and the
\* Variant a step stored
VariantSource == ReadFile(NodeAt(tree, Head(stack).path), "variant.json")
VariantStored == Top("variant") /\ Len(db'.variants) > Len(db.variants)
StoredVariant == db'.variants[Len(db'.variants)]
WellFormedHex(x) == x.t = "str" /\ x.v \in {HexTable[k] : k \in DOMAIN HexTable}
IsHexInput(x) == x.t = "str" /\ x.v \in DOMAIN HexTable
ExpectedColorHex(doc) ==
    LET first == IF "color_hex" \notin DOMAIN doc.v THEN JNull
                 ELSE IF doc.v["color_hex"].t # "list" THEN doc.v["color_hex"]
                 ELSE IF doc.v["color_hex"].v = <<>> THEN JNull
                 ELSE doc.v["color_hex"].v[1]
    IN  IF IsHexInput(first) THEN JStr(HexTable[first.v]) ELSE JStr("#000000")

\* C15: every Variant that is stored has a color_hex that is a "#"-prefixed,
\* 6-hex-digit, uppercase string: the normalized source value, the normalized
\* first element when the source is an array, and "#000000" when the source
\* is absent, an empty array, or malformed (also an array whose first element
\* is malformed or not a string).
C15_ColorHexNormalized ==
    [][VariantStored
       => /\ WellFormedHex(StoredVariant["color_hex"])
          /\ StoredVariant["color_hex"] = ExpectedColorHex(VariantSource)]_vars

\* C16: hex_variants is normalized element-wise and left out when it becomes
\* empty.  A Variant stored from a variant.json whose hex_variants is absent,
\* an empty array, or an array of empty/falsy elements only has no
\* 'hex_variants' key; from any other array it has exactly the normalized
\* elements.
C16_HexVariantsNormalized ==
    [][(/\ VariantStored
        /\ "hex_variants" \in DOMAIN VariantSource.v => VariantSource.v["hex_variants"].t = "list")
       => LET normalized ==
                  IF "hex_variants" \in DOMAIN VariantSource.v
                  THEN NormalizeEach(VariantSource.v["hex_variants"].v) ELSE <<>>
          IN  IF normalized = <<>>
              THEN "hex_variants" \notin DOMAIN StoredVariant
              ELSE /\ "hex_variants" \in DOMAIN StoredVariant
                   /\ StoredVariant["hex_variants"] = JList(normalized)]_vars

\* the sizes.json entry that is being processed, and the Size a step stored
SizeSource == Head(stack).ctx.size_entry
SizeStored == Top("size") /\ Len(db'.sizes) > Len(db.sizes)
StoredSize == db'.sizes[Len(db'.sizes)]
FieldOf(entity, key) == IF key \in DOMAIN entity THEN entity[key] ELSE JNull
IsZero(x) == x.t \in {"num", "float"} /\ x.v = 0

\* C17: the diameter of a Size that is stored is 1.75 when the source
\* diameter is zero, absent or null, and the source value otherwise; it is
\* never 0.
C17_DiameterDefault ==
    [][SizeStored
       => LET diameter == FieldOf(SizeSource.v, "diameter")
          IN  /\ ~IsZero(StoredSize["diameter"])
              /\ StoredSize["diameter"] =
                    IF diameter = JNull \/ IsZero(diameter) THEN JFloat(175)
                    ELSE PyFloat(diameter)]_vars

\* C18: a legacy 'ean' is promoted to 'gtin' and removed.  A Size that is
\* stored has no 'ean' key; its gtin is the source gtin when that is not
\* empty, whatever the ean, and the source ean when the source has no gtin or
\* an empty one (an absent and an empty value count as equal).  The source
\* tree is left as it is.
SameOrBothEmpty(x, y) == x = y \/ (~Truthy(x) /\ ~Truthy(y))
LinkSource == Head(stack).ctx.pl_entry
LinkStored == Top("link") /\ Len(db'.purchase_links) > Len(db.purchase_links)
StoredLink == db'.purchase_links[Len(db'.purchase_links)]

\* C19: the shipping overrides of a PurchaseLink, when present, are arrays:
\* a ships_from or ships_to of a PurchaseLink that is stored is a list, the
\* source list itself or the one-element list of the source scalar (also of a
\* falsy scalar such as the empty string).
C19_ShippingOverridesAreLists ==
    [][LinkStored
       => \A k \in {"ships_from", "ships_to"} :
             k \in DOMAIN StoredLink
                => /\ StoredLink[k].t = "list"
                   /\ StoredLink[k] = IF LinkSource.v[k].t = "list" THEN LinkSource.v[k]
                                      ELSE JList(<<LinkSource.v[k]>>)]_vars

\* every key of every entity is one of KeyOrder
KeysKnown ==
    \A c \in Collections : \A i \in 1..Len(db[c]) :
        DOMAIN db[c][i] \subseteq {KeyOrder[k] : k \in 1..Len(KeyOrder)}

\* the fields each handler computes or defaults (its overlay, and the keys it
\* removes), by the kind of the pending call
OverlayFields ==
    [store |-> {"id", "name", "slug", "directory_name", "storefront_url", "logo",
                "ships_from", "ships_to"},
     brand |-> {"id", "name", "slug", "directory_name", "website", "logo", "origin"},
     material |-> {"id", "brand_id", "material", "slug", "material_class"},
     filament |-> {"id", "brand_id", "material_id", "name", "slug", "material", "density",
                   "diameter_tolerance", "discontinued"},
     variant |-> {"id", "filament_id", "slug", "name", "color_hex", "discontinued",
                  "hex_variants"},
     size |-> {"id", "variant_id", "filament_weight", "diameter", "discontinued", "gtin",
               "ean", "purchase_links"},
     link |-> {"id", "size_id", "store_id", "url", "spool_refill", "ships_from",
               "ships_to"}]
KindCollection == [store |-> "stores", brand |-> "brands", material |-> "materials",
                   filament |-> "filaments", variant |-> "variants", size |-> "sizes",
                   link |-> "purchase_links"]
\* the source document of the entity the pending call is about
SourceOf(frame) ==
    IF frame.k = "size" THEN frame.ctx.size_entry
    ELSE IF frame.k = "link" THEN frame.ctx.pl_entry
    ELSE MarkerOf(frame)
EntityStored(kind) ==
    Top(kind) /\ Len(db'[KindCollection[kind]]) > Len(db[KindCollection[kind]])
LastOf(rows) == rows[Len(rows)]
\* a step stored an entity: every other key of its source is in it, unchanged
SourceKeysKept ==
    \A kind \in DOMAIN KindCollection :
        (EntityStored(kind) /\ SourceOf(Head(stack)).t = "obj")
            => \A k \in DOMAIN SourceOf(Head(stack)).v \ OverlayFields[kind] :
                  /\ k \in DOMAIN LastOf(db'[KindCollection[kind]])
                  /\ LastOf(db'[KindCollection[kind]])[k] = SourceOf(Head(stack)).v[k]
CsvWritten == ~artifacts.csv_written /\ artifacts'.csv_written
\* the file of collection c has a column named k whose cell in row i is cell
HasCell(file, i, k, cell) ==
    \E h \in 1..Len(file.headers) : file.headers[h] = k /\ file.rows[i][h] = cell
\* the tabular export was written: every such key is a column of its own name
PassedThroughKeysAreColumns ==
    \A kind \in DOMAIN KindCollection :
        LET c == KindCollection[kind]
        IN  \A i \in 1..Len(db[c]) :
                \A k \in DOMAIN db[c][i] \ (OverlayFields[kind] \cup {"directory_name"}) :
                    HasCell(artifacts'.csv[c], i, k, serialize_for_csv(db[c][i][k]))

\* C12: pass-through preservation.  For every entity type, a key of the
\* source document that is not one of the type's computed fields is in the
\* snapshot entity with its value unchanged, and the tabular export has a
\* column of that name whose cell in the entity's row is the serialisation
\* of the value, whatever the key is called ('logo' and 'logo_name' on a
\* material, filament, variant, size or purchase link included).
C12_PassThroughPreserved ==
    [][SourceKeysKept /\ (CsvWritten => PassedThroughKeysAreColumns)]_vars

\* the same entity with another value of the marker
Remarked(entity) ==
    IF "directory_name" \in DOMAIN entity
    THEN [entity EXCEPT !["directory_name"] = JStr("another")] ELSE entity

\* C13: the internal directory-name marker is never exposed.  For every
\* entity of the snapshot, in every state of the crawl and the export: the row
\* entity_to_dict projects has no 'directory_name' key, and neither it nor the
\* database row depends on the marker's value; no header row of the tabular
\* export holds 'directory_name'; no database row has such a column.
C13_DirectoryNameNeverExposed ==
    /\ \A c \in Collections : \A i \in 1..Len(db[c]) :
          /\ "directory_name" \notin DOMAIN entity_to_dict(db[c][i])
          /\ entity_to_dict(Remarked(db[c][i])) = entity_to_dict(db[c][i])
          /\ RowOf(Remarked(db[c][i]), EntityType[c]) = RowOf(db[c][i], EntityType[c])
    /\ \A c \in Collections : \A h \in 1..Len(artifacts.csv[c].headers) :
          artifacts.csv[c].headers[h] # "directory_name"
    /\ \A t \in DOMAIN artifacts.sqlite.tables :
          \A i \in 1..Len(artifacts.sqlite.tables[t]) :
              "directory_name" \notin DOMAIN artifacts.sqlite.tables[t][i]

\* both exports were written from a snapshot whose brand and store carry the
\* marker and whose material holds a source key of the same name
C13_Witness ==
    /\ artifacts.csv_written /\ artifacts.sqlite_written
    /\ ~artifacts.sqlite.raised
    /\ Len(db.brands) = 1 /\ "directory_name" \in DOMAIN db.brands[1]
    /\ Len(db.stores) = 1 /\ "directory_name" \in DOMAIN db.stores[1]
    /\ Len(db.materials) = 1 /\ "directory_name" \in DOMAIN db.materials[1]
    /\ Len(artifacts.sqlite.tables["material"]) = 1

\* C14: a build that ends with warnings only still produces complete
\* artifacts.  For every snapshot crawl() returns, the embedded-database
\* export runs to completion (no constraint of the schema is violated) and
\* each of the seven tables holds exactly one row per entity of the snapshot.
C14_SqliteExportCompletes ==
    artifacts.sqlite_written
        => /\ ~artifacts.sqlite.raised
           /\ \A c \in Collections :
                 Len(artifacts.sqlite.tables[EntityType[c]]) = Len(db[c])

\* the database row of every entity holds, for each column of its table, the
\* coerced value of the projected entity's field of that name, NULL without one
RowsMatchColumns ==
    \A c \in Collections : \A i \in 1..Len(db[c]) :
        \A col \in ColumnSet(EntityType[c]) :
            artifacts.sqlite.tables[EntityType[c]][i][col] =
                serialize_for_sqlite(Field(entity_to_dict(db[c][i]), col))
\* every field of a projected entity that has no column is in the tabular
\* export of the same snapshot
OtherFieldsInCsv ==
    \A c \in Collections : \A i \in 1..Len(db[c]) :
        \A k \in DOMAIN entity_to_dict(db[c][i]) \ ColumnSet(EntityType[c]) :
            HasCell(artifacts.csv[c], i, k, serialize_for_csv(entity_to_dict(db[c][i])[k]))

\* C20: the insertion matches entity fields to declared columns.  When both
\* exports were written and the insertion ran to its end, every database row
\* holds for each column the coerced value of the projected entity's field of
\* that name, or NULL when there is none; the fields without a column are
\* left out of the row and are present in the tabular export.
C20_InsertionMatchesColumns ==
    (artifacts.csv_written /\ artifacts.sqlite_written /\ ~artifacts.sqlite.raised)
        => RowsMatchColumns /\ OtherFieldsInCsv

\* the warnings about purchase links, and the snapshot's links plus these
LinkWarnings(log) ==
    Cardinality({i \in 1..Len(log) :
        log[i].message[1] \in {"Purchase link missing store_id or url", "Unknown store_id"}})
LinksAccounted == Len(db.purchase_links) + LinkWarnings(result)
LinkStep == Top("link") /\ LinkSource.t = "obj"

\* C30: a purchase link (an object) whose store_id or url is missing, null or
\* empty gives exactly one "Missing Field" warning and no PurchaseLink, before
\* the store is looked up (never "Invalid Reference").  Every link entry is
\* either stored or dropped with exactly one warning: a stored Size leaves one
\* pending call per entry of its purchase_links, each such call adds one to
\* the number of PurchaseLinks plus link warnings, and no other step changes
\* that number.
C30_LackingLinkIsMissingField ==
    [][/\ (LinkStep /\ (~Truthy(FieldOf(LinkSource.v, "store_id"))
                        \/ ~Truthy(FieldOf(LinkSource.v, "url"))))
            => OneWarningOnly("Missing Field")
       /\ LinkStep
            => /\ LinksAccounted' = LinksAccounted + 1
               /\ Len(result') + Len(db'.purchase_links)
                    = Len(result) + Len(db.purchase_links) + 1
       /\ ~Top("link") => LinksAccounted' = LinksAccounted
       /\ (SizeStored /\ FieldOf(SizeSource.v, "purchase_links").t = "list" /\ pc' = pc)
            => Len(stack') = Len(stack) - 1 + Len(FieldOf(SizeSource.v, "purchase_links").v)]_vars

\* a finished crawl of a size with one link: it had a null, empty or absent
\* store_id or url, and gave the only warning, a "Missing Field"
C30_Witness ==
    /\ pc = "done"
    /\ Len(db.sizes) = 1 /\ db.purchase_links = <<>>
    /\ Len(result) = 1 /\ result[1].category = "Missing Field"
    /\ LinkWarnings(result) = 1

(***************************************************************************)
(* Computed fields against the keys of the source documents.               *)
(***************************************************************************)
IdTag == [store |-> "store", brand |-> "brand", material |-> "material",
          filament |-> "filament", variant |-> "variant", size |-> "size",
          link |-> "purchase_link"]
\* the foreign keys of each kind and the collection each refers to
ParentKeys ==
    [store |-> <<>>, brand |-> <<>>,
     material |-> <<<<"brand_id", "brands">>>>,
     filament |-> <<<<"brand_id", "brands">>, <<"material_id", "materials">>>>,
     variant |-> <<<<"filament_id", "filaments">>>>,
     size |-> <<<<"variant_id", "variants">>>>,
     link |-> <<<<"size_id", "sizes">>>>]
SourceHolds(kind, keys) ==
    /\ SourceOf(Head(stack)).t = "obj"
    /\ keys \subseteq DOMAIN SourceOf(Head(stack)).v

\* C29: computed id and foreign-key fields win over the keys of the source.
\* A step that stores an entity stores it with a derived id of its own kind,
\* with each foreign key equal to the id of the parent the traversal is in
\* (an entity of the referenced collection), and, for a purchase link, with
\* the store_id the store cache holds for the raw store_id of the source;
\* a stored Size has no purchase_links key.
C29_ComputedFieldsWin ==
    [][\A kind \in DOMAIN KindCollection :
         EntityStored(kind)
            => LET e == LastOf(db'[KindCollection[kind]])
                   ctx == Head(stack).ctx
               IN  /\ e["id"].t = "id" /\ e["id"].v[1] = IdTag[kind]
                   /\ \A i \in 1..Len(ParentKeys[kind]) :
                         /\ e[ParentKeys[kind][i][1]] = ctx[ParentKeys[kind][i][1]]
                         /\ e[ParentKeys[kind][i][1]] \in IdSet(db[ParentKeys[kind][i][2]])
                   /\ kind = "link"
                        => /\ e["store_id"] = store_cache[ctx.pl_entry.v["store_id"]]
                           /\ e["store_id"] \in IdSet(db.stores)
                   /\ kind = "size" => "purchase_links" \notin DOMAIN e]_vars
\* a source document that holds its own values under the computed keys was
\* stored at every level, and the size had purchase links in its source
C29_Witness ==
    /\ pc = "done"
    /\ \E kind \in {"material", "filament", "size", "link"} :
          /\ Len(db[KindCollection[kind]]) = 1
          /\ \E t \in {WithExtra(kind, x) : x \in {y \in ExtraFields : "size_id" \in DOMAIN y}} :
                tree = t
          /\ db[KindCollection[kind]][1]["id"].t = "id"
    /\ Len(db.sizes) = 1 /\ Len(db.purchase_links) = 1

(***************************************************************************)
(* The stores pass and the resolution of purchase links.                   *)
(***************************************************************************)
\* the ids declared by the store.json documents of the tree
DeclaredStoreIds ==
    IF ~Exists(tree, "stores") THEN {}
    ELSE LET stores == tree.dirs["stores"].dirs
         IN  {PyGet(ReadFile(stores[n], "store.json"), "id", JNull) :
                 n \in {m \in DOMAIN stores :
                           /\ ~StartsWithDot(m)
                           /\ ReadFile(stores[m], "store.json").t = "obj"
                           /\ Truthy(PyGet(ReadFile(stores[m], "store.json"), "id", JNull))}}
Pending(kind) == \E i \in 1..Len(stack) : stack[i].k = kind

\* C23: stores are crawled before data.  While the data pass runs no store
\* directory is pending, every Store is already in the snapshot and the store
\* cache holds exactly the ids the store.json documents declare; the cache
\* changes only in the stores pass.  A purchase link with a store_id and a
\* url is stored exactly when its store_id is a declared id, whatever the
\* names and the order of the store directories.
C23_StoresBeforeData ==
    [][/\ pc = "data"
            => /\ ~Pending("store")
               /\ DOMAIN store_cache = DeclaredStoreIds
               /\ db'.stores = db.stores
       /\ store_cache' # store_cache => (pc = "stores" /\ Top("store"))
       /\ Pending("brand") => pc = "data"
       /\ (LinkStep /\ Truthy(FieldOf(LinkSource.v, "store_id"))
                    /\ Truthy(FieldOf(LinkSource.v, "url")))
            => (LinkStored <=> FieldOf(LinkSource.v, "store_id") \in DeclaredStoreIds)]_vars
\* two store directories, the declared ids in the reverse order of the
\* directory names, and the link that names the declared id is stored
C23_Witness ==
    /\ pc = "done"
    /\ Len(db.stores) = 2
    /\ db.stores[1]["id"] = generate_store_id(JStr("other-store"))
    /\ \E i \in 1..Len(db.purchase_links) :
          db.purchase_links[i]["store_id"] = generate_store_id(JStr("acme-store"))

(***************************************************************************)
(* Materials and the folders they come from.                               *)
(***************************************************************************)
\* the non-hidden subdirectories of the directory of every Brand stored
MaterialFolders ==
    {<<i, m>> \in (1..Len(db.brands)) \X {"a", "b", "c", "d", ".hidden"} :
        /\ m \in DOMAIN NodeAt(tree, <<"data", db.brands[i]["directory_name"].v>>).dirs
        /\ ~StartsWithDot(m)}
MaterialStep == pc = "data" /\ Top("material") /\ pc' = "data"
NewMaterial == LastOf(db'.materials)

\* C24: one Material per material folder.  A visit of a material folder
\* that returns stores exactly one Material, with an id derived from the
\* brand id and the directory name that no Material stored before has, and
\* with the directory name as material label when there is no material.json;
\* it then visits every non-hidden subdirectory as a filament of that
\* Material, and a Filament that is stored references a Material of the
\* snapshot.  When the crawl has returned, the Materials are exactly those of
\* the non-hidden subdirectories of the Brands stored, one each.
C24_OneMaterialPerFolder ==
    [][/\ MaterialStep
            => LET frame == Head(stack)
                   name == frame.path[Len(frame.path)]
                   below == {n \in DOMAIN NodeAt(tree, frame.path).dirs : ~StartsWithDot(n)}
                   calls == 1..Cardinality(below)
               IN  /\ Len(db'.materials) = Len(db.materials) + 1
                   /\ NewMaterial["id"] = generate_material_id(frame.ctx.brand_id, JStr(name))
                   /\ NewMaterial["id"] \notin IdSet(db.materials)
                   /\ NewMaterial["brand_id"] \in IdSet(db.brands)
                   /\ ~Exists(NodeAt(tree, frame.path), "material.json")
                        => NewMaterial["material"] = JStr(name)
                   /\ Len(stack') = Len(stack) - 1 + Cardinality(below)
                   /\ {stack'[i].path : i \in calls} = {frame.path \o <<n>> : n \in below}
                   /\ \A i \in calls :
                         /\ stack'[i].k = "filament"
                         /\ stack'[i].ctx.material_id = NewMaterial["id"]
       /\ EntityStored("filament")
            => /\ LastOf(db'.filaments)["material_id"] = Head(stack).ctx.material_id
               /\ LastOf(db'.filaments)["material_id"] \in IdSet(db.materials)
       /\ pc' = "done"
            => /\ Len(db.materials) = Cardinality(MaterialFolders)
               /\ IdSet(db.materials) =
                     {generate_material_id(db.brands[f[1]]["id"], JStr(f[2])) :
                         f \in MaterialFolders}]_vars
\* two material folders of one brand, the first without material.json
C24_Witness ==
    /\ pc = "done"
    /\ Len(db.brands) = 1 /\ Len(db.materials) = 2 /\ Len(db.filaments) = 2
    /\ ~Exists(NodeAt(tree, <<"data", "a", "a">>), "material.json")
    /\ db.materials[1]["material"] = JStr("a")
    /\ db.materials[2]["material"] = JStr("PLA")

(***************************************************************************)
(* The order of the traversal.                                             *)
(***************************************************************************)
\* the position of a pending call in the traversal: the names of its path,
\* then the index of the size entry and of the link
Key(frame) ==
    [i \in 1..Len(frame.path) |-> Rank(frame.path[i])]
    \o (IF frame.k = "size" THEN <<frame.ctx.index>>
        ELSE IF frame.k = "link" THEN <<frame.ctx.size_index, frame.ctx.link_index>>
        ELSE <<>>)
\* lexicographic order, a prefix first
LexLess(a, b) ==
    \E k \in 1..(Len(a) + 1) :
        /\ k <= Len(b)
        /\ \A j \in 1..(k - 1) : a[j] = b[j]
        /\ k = Len(a) + 1 \/ a[k] < b[k]
Ignored == {".hidden", "README.md"}
Through(path) == {path[i] : i \in 1..Len(path)}
NamesIncrease(rows) ==
    \A i \in 1..Len(rows), j \in 1..Len(rows) :
        i < j => Rank(rows[i]["directory_name"].v) < Rank(rows[j]["directory_name"].v)

\* C25: the snapshot follows the depth-first, lexicographic traversal.  The
\* pending calls are always in traversal order (directory names in
\* lexicographic order, size entries and links in the order of their lists),
\* the call that is handled is the first of them and the calls it adds come
\* before every other pending call; a step changes the snapshot only by
\* appending one entity to the collection of the node it handles.  Stores and
\* Brands are in the order of their directory names.  No call, no entity and
\* no diagnostic is about a hidden directory or a file that is not a
\* directory.
C25_TraversalOrder ==
    [][/\ \A i \in 1..Len(stack'), j \in 1..Len(stack') :
            i < j => LexLess(Key(stack'[i]), Key(stack'[j]))
       /\ stack # <<>>
            => \A i \in 1..Len(stack') : LexLess(Key(Head(stack)), Key(stack'[i]))
       /\ (stack # <<>> /\ Len(stack') >= Len(stack))
            => \A i \in 1..(Len(stack') - Len(stack) + 1) :
                  /\ Len(Key(stack'[i])) > Len(Key(Head(stack)))
                  /\ \A j \in 1..Len(Key(Head(stack))) :
                        Key(stack'[i])[j] = Key(Head(stack))[j]
       /\ \A c \in Collections :
            db'[c] # db[c]
                => /\ stack # <<>> /\ Head(stack).k \in DOMAIN KindCollection
                   /\ KindCollection[Head(stack).k] = c
                   /\ Len(db'[c]) = Len(db[c]) + 1
                   /\ SubSeq(db'[c], 1, Len(db[c])) = db[c]
       /\ NamesIncrease(db'.stores) /\ NamesIncrease(db'.brands)
       /\ \A c \in {"stores", "brands"} :
            (db'[c] # db[c])
                => LastOf(db'[c])["directory_name"] = JStr(Head(stack).path[Len(Head(stack).path)])
       /\ \A i \in 1..Len(stack') : Through(stack'[i].path) \cap Ignored = {}
       /\ \A i \in 1..Len(result') : Through(result'[i].path) \cap Ignored = {}]_vars
\* the tree with a hidden directory and a stray file beside every level
\* below a brand was crawled: two variants, one warning (the unknown store
\* of the second link) for each
C25_Witness ==
    /\ pc = "done"
    /\ Len(db.brands) = 1 /\ Len(db.materials) = 1 /\ Len(db.filaments) = 1
    /\ Len(db.variants) = 2 /\ Len(db.sizes) = 2 /\ Len(db.purchase_links) = 2
    /\ Len(result) = 2
    /\ ".hidden" \in DOMAIN NodeAt(tree, <<"data", "a", "a", "a">>).dirs
    /\ "README.md" \in DOMAIN NodeAt(tree, <<"data", "a", "a">>).files

(***************************************************************************)
(* The snapshot under the crawl and under the exporters.                   *)
(***************************************************************************)
IsPrefix(s, t) == Len(s) <= Len(t) /\ SubSeq(t, 1, Len(s)) = s
\* what each exporter writes when nothing was exported before
FirstExport ==
    [csv |-> export_csv(db),
     sqlite |-> export_sqlite(db, NoDatabase),
     stores |-> export_sqlite_stores(db, NoDatabase),
     badges |-> export_badges(db)]

\* C26: the collections are append-only and the exporters only read.  In
\* every step, of the crawl or of an exporter, each collection of before is
\* a prefix of the collection of after; a step of an exporter leaves the
\* snapshot, the diagnostics and the caches as they are; and what an exporter
\* has written is what it writes when it runs first and alone, whichever
\* exporters ran before it and however often it ran itself.
C26_AppendOnlyReadOnlyExport ==
    [][/\ \A c \in Collections : IsPrefix(db[c], db'[c])
       /\ artifacts' # artifacts
            => /\ UNCHANGED <<db, result, store_cache, material_cache, brand_cache, tree>>
               /\ artifacts.csv_written => artifacts'.csv = artifacts.csv
               /\ artifacts.sqlite_written => artifacts'.sqlite = artifacts.sqlite
               /\ artifacts.stores_written => artifacts'.stores = artifacts.stores
               /\ artifacts.badges_written => artifacts'.badges = artifacts.badges
               /\ artifacts'.csv_written => artifacts'.csv = FirstExport.csv
               /\ artifacts'.sqlite_written => artifacts'.sqlite = FirstExport.sqlite
               /\ artifacts'.stores_written => artifacts'.stores = FirstExport.stores
               /\ artifacts'.badges_written => artifacts'.badges = FirstExport.badges]_vars
\* the four exporters ran on a snapshot with an entity in every collection
C26_Witness ==
    /\ pc = "done"
    /\ \A c \in Collections : db[c] # <<>>
    /\ artifacts.csv_written /\ artifacts.sqlite_written
    /\ artifacts.stores_written /\ artifacts.badges_written
    /\ ~artifacts.sqlite.raised /\ ~artifacts.stores.file.raised
    /\ Len(artifacts.stores.file.tables["store"]) = Len(db.stores)
    /\ artifacts.badges.brands = "1"

(***************************************************************************)
(* The header of a tabular file.                                           *)
(***************************************************************************)
Reverse(rows) == [i \in 1..Len(rows) |-> rows[Len(rows) + 1 - i]]
Columnwise(headers) == {headers[h] : h \in 1..Len(headers)}
\* the keys the projection of some row of the collection holds
ExportableKeys(c) == UNION {DOMAIN entity_to_dict(db[c][i]) : i \in 1..Len(db[c])}
\* the preferred keys first, in their fixed order, then the others, sorted;
\* no column twice; the same header when the rows are in the reverse order
HeaderOrdered(c) ==
    LET headers == artifacts.csv[c].headers
        preferred == _KEY_ORDER[EntityType[c]]
    IN  /\ \A h \in 1..Len(headers), g \in 1..Len(headers) :
              h # g => headers[h] # headers[g]
        /\ headers = SelectSeq(preferred, LAMBDA k : k \in Columnwise(headers))
                       \o SortedKeys(Columnwise(headers) \ Columnwise(preferred))
        /\ headers = _derive_headers(Reverse(db[c]), EntityType[c])

\* C21: the header of a tabular file is the preferred ordering of its type
\* followed by the other keys in alphabetical order.  When the tabular export
\* was written, for every collection that is not empty: every key of the
\* projection of any row is a column, no column occurs twice, the preferred
\* keys come first in their fixed order and the others follow sorted, and the
\* header is the same for the rows in the reverse order.
C21_HeaderFromObservedKeys ==
    artifacts.csv_written
        => \A c \in Collections :
              db[c] # <<>>
                => /\ ExportableKeys(c) \subseteq Columnwise(artifacts.csv[c].headers)
                   /\ HeaderOrdered(c)

(***************************************************************************)
(* The projection of a row and the header of its file.                     *)
(***************************************************************************)
CarriesMarker == {"brands", "stores"}
\* the name under which a key of an entity of the collection is exported
ExportedName(c, k) == IF k = "logo" /\ c \in CarriesMarker THEN "logo_name" ELSE k
\* the projection holds every field that is not null under its exported name
ProjectionRenamesOnlyLogo(c, entity) ==
    \A k \in DOMAIN entity \ {"directory_name"} :
        entity[k] # JNull
            => /\ ExportedName(c, k) \in DOMAIN entity_to_dict(entity)
               /\ entity_to_dict(entity)[ExportedName(c, k)] = entity[k]
\* every column is the exported name of a key of some row, and every cell is
\* the value the projection of its row holds under the name of its column
HeaderAgrees(c) ==
    LET file == artifacts.csv[c]
    IN  \A h \in 1..Len(file.headers) :
            /\ \E i \in 1..Len(db[c]) : \E k \in DOMAIN db[c][i] \ {"directory_name"} :
                  ExportedName(c, k) = file.headers[h]
            /\ \A i \in 1..Len(db[c]) :
                  file.rows[i][h] =
                      serialize_for_csv(Field(entity_to_dict(db[c][i]), file.headers[h]))

\* C27: the projection renames 'logo' to 'logo_name' for Brands and Stores
\* only and leaves every other field as it is, and the header agrees with
\* it.  When the tabular export was written, for every collection: the
\* projection of every entity holds each field that is not null under its own
\* name, a Brand's or a Store's 'logo' under 'logo_name'; every column is the
\* name the projection uses for a key of some row; and every cell is the value
\* the projection of its row holds under the name of its column.
C27_HeaderAndProjectionAgree ==
    artifacts.csv_written
        => \A c \in Collections :
              /\ \A i \in 1..Len(db[c]) : ProjectionRenamesOnlyLogo(c, db[c][i])
              /\ HeaderAgrees(c)

(***************************************************************************)
(* The shipping fields of the purchase-offers view.                        *)
(***************************************************************************)
Offers == v_purchase_offers(artifacts.sqlite.tables)
StoreOf(link) == db.stores[CHOOSE j \in 1..Len(db.stores) : db.stores[j]["id"] = link["store_id"]]
Supplied(link, k) == k \in DOMAIN link /\ link[k] # JNull

\* C28: the shipping fields of the purchase-offers view fall back from the
\* link to its store.  When the database export has completed, the view has
\* one row for every PurchaseLink of the snapshot, and its ships_from
\* (ships_to) is the value of the link itself when the link has one, also an
\* empty one, and the value of the Store the link refers to when the link has
\* none (the key is absent or null).
C28_OffersShippingFallsBack ==
    (artifacts.sqlite_written /\ ~artifacts.sqlite.raised)
        => /\ DOMAIN Offers = 1..Len(db.purchase_links)
           /\ \A i \in 1..Len(db.purchase_links) :
                 /\ Offers[i].purchase_link_id = db.purchase_links[i]["id"]
                 /\ \A k \in {"ships_from", "ships_to"} :
                       Offers[i][k] =
                           IF Supplied(db.purchase_links[i], k)
                           THEN serialize_for_sqlite(db.purchase_links[i][k])
                           ELSE serialize_for_sqlite(StoreOf(db.purchase_links[i])[k])
\* a link with an explicitly empty ships_to, and no ships_from, of a store
\* that ships from NL to EU: the view shows the store's ships_from and the
\* link's empty ships_to
C28_Witness ==
    /\ artifacts.sqlite_written /\ ~artifacts.sqlite.raised
    /\ Len(db.purchase_links) = 1
    /\ "ships_from" \notin DOMAIN db.purchase_links[1]
    /\ Supplied(db.purchase_links[1], "ships_to")
    /\ db.purchase_links[1]["ships_to"] = JList(<<>>)
    /\ Offers[1].ships_from = JStr("[\"NL\"]")
    /\ Offers[1].ships_to = JStr("[]")

(***************************************************************************)
(* A build after another build.                                            *)
(***************************************************************************)
\* C22: every build starts from scratch.  A build that follows a build of
\* another tree ends as crawl_data ends on its own tree, with the same
\* snapshot and the same diagnostics, and the database file written after it
\* is the file the export of that snapshot writes where no file was.
C22_BuildsFromScratch ==
    [][/\ (prev # NoPrev /\ pc # pc' /\ pc' \in {"done", "raised"})
            => /\ pc' = crawl_data.pc
               /\ db' = crawl_data.db
               /\ result' = crawl_data.result
       /\ (prev # NoPrev /\ artifacts' # artifacts)
            => artifacts'.sqlite = export_sqlite(crawl_data.db, NoDatabase)]_vars
\* the second build is of the tree without the store the link names: the
\* first build stored the link and exported it, the second one has no link,
\* and the database file written after it has none either
C22_Witness ==
    /\ prev # NoPrev /\ prev.pc = "done" /\ pc = "done"
    /\ Len(prev.db.stores) = 2 /\ Len(db.stores) = 1
    /\ Len(prev.db.purchase_links) = 1 /\ db.purchase_links = <<>>
    /\ artifacts.sqlite_written /\ ~artifacts.sqlite.raised
    /\ artifacts.sqlite.tables["purchase_link"] = <<>>
    /\ Len(artifacts.sqlite.tables["store"]) = 1

====
